---- MODULE Spec2Model ----
(***************************************************************************)
(* Verification model of the vega workflow tooling.                        *)
(*                                                                         *)
(*   SpecEngine / FairSpecEngine : the command-line ExecutionEngine        *)
(*                                 (utils/execution-engine.ts)             *)
(*   SpecClient                  : WorkflowClient execute / executeAsync / *)
(*                                 cancel (src/frontend/workflow-client.ts)*)
(*   SpecParse                   : validation in the two YAML parsers      *)
(*   SpecCycles                  : detectCycles as documented in           *)
(*                                 docs/CHALLENGES.md                      *)
(*   SpecTick                    : TickManager and callers sharing a key   *)
(*                                 (src/execution/scheduler.service.ts)    *)
(*   SpecSchedule                : AgentScheduler and the schedule check   *)
(*                                 of executeSimpleWorkflow                *)
(*   SpecDialogue                : DialogueExecutor with TemplateResolver  *)
(*                                 as listed in docs/CHALLENGES.md         *)
(***************************************************************************)
EXTENDS Integers, Sequences, FiniteSets, TLC

VARIABLES
    \* ---- ExecutionEngine.execute ----
    workflow,      \* this.workflow: the parsed WorkflowDefinition
    idx,           \* position of the for-loop over workflow.nodes (1-based)
    phase,         \* "loop" | "awaiting" (axios.post in flight) | "done"
    nodeResults,   \* the nodeResults array
    result,        \* the ExecutionResult returned by execute (NoResult before)
    started,       \* ids of the nodes for which executeNode was called, in order
    invoked,       \* ids of the nodes whose agent endpoint was called, in order
    \* ---- the parsers ----
    doc,               \* the YAML document handed to the parsers
    serviceResult,     \* <<r>>: what the service parser's parse returned or threw
    standaloneResult,  \* <<r>>: what the standalone parser's parse returned
    \* ---- detectCycles ----
    spec,              \* spec.nodes: the nodes with their depends lists
    cycleResult,       \* <<r>>: the ValidationResult of detectCycles
    \* ---- WorkflowClient ----
    activeRuns,        \* the keys of the map activeRuns
    runs,              \* the WorkflowRun object of each run id
    execution,         \* where executeAsync stands for each run: none, pending, settled
    inflight,          \* whether the executor awaits an agent invocation of the run
    dispatched,        \* number of nodes of the run the executor has dispatched
    log,               \* per run, the lines logged about it: "dispatch", "Run cancelled"
    response,          \* what the last call of execute or cancel returned
    \* ---- TickManager and its callers ----
    now,               \* Date.now()
    tickCounts,        \* the map tickCounts (0 for a key without entry)
    lastTickTimes,     \* the map lastTickTimes (0 for a key without entry)
    tickConfig,        \* the AgentTickConfig the callers pass
    lastCall,          \* the last call of shouldExecute: its key and what it returned
    acting,            \* per caller: "idle", or the key it executes the agent for
    roundExecutions,   \* per key: executions started since the last resetRound
    lastExecutionAt,   \* per key: when the last execution started (0: never)
    \* ---- AgentScheduler and executeSimpleWorkflow ----
    wallClock,         \* new Date(): minutes since a Sunday 00:00 UTC
    schedule,          \* workflow.executionConfig.schedule
    nodeSchedule,      \* the schedule of the workflow's dialogue node
    scheduleCall,      \* the last call of the scheduler at this instant
    simpleRun,         \* where executeSimpleWorkflow stands
    \* ---- DialogueExecutor ----
    dialogue,          \* dialogueNode.dialogue: the DialogueConfig
    agents,            \* the agent refs the registry knows
    dialogueContext,   \* turns and conversationHistory of the DialogueContext
    turnLoop,          \* where executeDialogue stands: loop index, call in flight
    nodeRun,           \* what executeDialogue returned or threw
    \* ---- functions called on their own ----
    argument,          \* the function called and what it is called with
    returned,          \* what the call returned or threw (done: FALSE before)
    \* ---- agentic-cli: register ----
    registry,          \* ~/.agentic/agents.json: agent id -> stored definition
    cli                \* the running register commands: position, file, options

engineVars == <<workflow, idx, phase, nodeResults, result, started, invoked>>

parseVars == <<doc, serviceResult, standaloneResult>>

cycleVars == <<spec, cycleResult>>

clientVars == <<activeRuns, runs, execution, inflight, dispatched, log, response>>

tickVars == <<now, tickCounts, lastTickTimes, tickConfig, lastCall, acting, roundExecutions,
              lastExecutionAt>>

\* The variables of the components modelled after the client.
scheduleVars == <<wallClock, schedule, nodeSchedule, scheduleCall, simpleRun>>

dialogueVars == <<dialogue, agents, dialogueContext, turnLoop, nodeRun>>

functionVars == <<argument, returned>>

registerVars == <<registry, cli>>

restVars == <<tickVars, scheduleVars, dialogueVars, functionVars, registerVars>>

vars == <<engineVars, parseVars, cycleVars, clientVars, restVars>>

nonEngineVars == <<parseVars, cycleVars, clientVars, restVars>>

nonParseVars == <<engineVars, cycleVars, clientVars, restVars>>

nonCycleVars == <<engineVars, parseVars, clientVars, restVars>>

coreVars == <<engineVars, parseVars, cycleVars, clientVars>>

nonTickVars == <<coreVars, scheduleVars, dialogueVars, functionVars, registerVars>>

nonScheduleVars == <<coreVars, tickVars, dialogueVars, functionVars, registerVars>>

nonDialogueVars == <<coreVars, tickVars, scheduleVars, functionVars, registerVars>>

nonFunctionVars == <<coreVars, tickVars, scheduleVars, dialogueVars, registerVars>>

nonRegisterVars == <<coreVars, tickVars, scheduleVars, dialogueVars, functionVars>>

nonClientVars == <<engineVars, parseVars, cycleVars, restVars>>

(***************************************************************************)
(* Bounds                                                                  *)
(***************************************************************************)
\* Node ids in declaration order; a workflow declares a prefix of them.
NodeOrder == <<"A", "B", "C">>

\* Largest number of edges of a workflow the engine is given.
MaxEdges == 2

\* Largest number of edges of a document given to the parsers.
MaxDocEdges == 2

\* Number of runs the scheduler hands out run ids for.
MaxRuns == 1

\* Date.now() when the model starts, in ms; later than any interval.
StartTime == 10000

\* The clock advances by this many ms at a time.
TimeStep == 500

\* Number of times the clock advances.
MaxAdvances == 4

\* Largest number of executions started for a key in one round.
MaxExecutions == 2

\* tickConfig.intervalMs || 1000
DefaultIntervalMs == 1000

\* Number of days the wall clock runs through, starting on a Sunday.
HorizonDays == 9

\* Milliseconds in one minute of the wall clock.
MsPerMinute == 60000

\* Largest number of predefined turns of a dialogue.
MaxPredefinedTurns == 2

\* Largest maxTurns of a dialogue.
MaxMaxTurns == 4

\* Largest number of ticks of the idle agent recorded before the start.
MaxEarlierTicks == 1

\* Largest number of entries of an array in a template context.
MaxHistory == 3

\* Largest number of entries of a daysOfWeek array given to validateSchedule.
MaxDays == 2

\* maxAttempts values of the enumerated retry blocks.
RetryAttempts == {3}

\* Messages of a failing axios.post.
FailureMessages == {"timeout", "status 500"}

(***************************************************************************)
(* Helpers                                                                 *)
(***************************************************************************)
Range(s) == {s[i] : i \in 1..Len(s)}

Prefixes(s) == {SubSeq(s, 1, n) : n \in 0..Len(s)}

SeqsUpTo(S, k) == UNION {[1..n -> S] : n \in 0..k}

\* A node without a retry block (node.retry is undefined).
NoRetry == [present |-> FALSE, maxAttempts |-> 0]

RetryBlock(n) == [present |-> TRUE, maxAttempts |-> n]

\* Agent refs: one with an entry in agentEndpoints, one without.
KnownRef == "ceo-agent-v1"

UnknownRef == "custom-agent"

(***************************************************************************)
(* The standalone parser (agentic-client yaml-parser.ts, copied into the   *)
(* command line's utils/parser.ts).  A parsed YAML document is a record    *)
(*   [name, version, maxBudget, nodes, edges, outputs]                     *)
(* where a missing scalar or a missing id/ref/from/to is "" (falsy), and   *)
(* hasNodes / hasEdges say whether the nodes / edges array is there.       *)
(***************************************************************************)
Err(message, path) == [type |-> "validation", message |-> message, path |-> path]

RECURSIVE NodeErrors(_, _, _)
NodeErrors(nodes, i, nodeIds) ==
    IF i > Len(nodes) THEN <<>>
    ELSE LET node == nodes[i]
             idErr == IF node.id = ""
                      THEN <<Err(<<"Node at index missing id", i - 1>>, <<"nodes", i - 1>>)>>
                      ELSE IF node.id \in nodeIds
                           THEN <<Err(<<"Duplicate node ID: ", node.id>>, <<"nodes", i - 1, "id">>)>>
                           ELSE <<>>
             refErr == IF node.ref = ""
                       THEN <<Err(<<"Node missing ref (agent reference)", i - 1>>, <<"nodes", i - 1>>)>>
                       ELSE <<>>
         IN  idErr \o refErr
               \o NodeErrors(nodes, i + 1, IF node.id = "" THEN nodeIds ELSE nodeIds \cup {node.id})

RECURSIVE EdgeErrors(_, _, _)
EdgeErrors(edges, i, nodeIds) ==
    IF i > Len(edges) THEN <<>>
    ELSE LET edge == edges[i]
             e1 == IF edge.from = ""
                   THEN <<Err(<<"Edge at index missing 'from' field", i - 1>>, <<"edges", i - 1>>)>>
                   ELSE <<>>
             e2 == IF edge.to = ""
                   THEN <<Err(<<"Edge at index missing 'to' field", i - 1>>, <<"edges", i - 1>>)>>
                   ELSE <<>>
             e3 == IF edge.from # "" /\ edge.from \notin nodeIds
                   THEN <<Err(<<"Edge references non-existent node: ", edge.from>>, <<"edges", i - 1, "from">>)>>
                   ELSE <<>>
             e4 == IF edge.to # "" /\ edge.to \notin nodeIds
                   THEN <<Err(<<"Edge references non-existent node: ", edge.to>>, <<"edges", i - 1, "to">>)>>
                   ELSE <<>>
         IN  e1 \o e2 \o e3 \o e4 \o EdgeErrors(edges, i + 1, nodeIds)

\* parseFloat(maxBudget) is NaN or <= 0
BadBudget(b) == b \in {"0", "abc"}

\* WorkflowYAMLParser.validate: the list of all validation errors.
validate(parsed) ==
    LET req == (IF parsed.name = "" THEN <<Err(<<"Workflow name is required">>, <<>>)>> ELSE <<>>)
               \o (IF parsed.version = "" THEN <<Err(<<"Workflow version is required">>, <<>>)>> ELSE <<>>)
               \o (IF ~parsed.hasNodes THEN <<Err(<<"Workflow must have nodes array">>, <<>>)>> ELSE <<>>)
        nodes == IF parsed.hasNodes THEN parsed.nodes ELSE <<>>
        nodeIdSet == {nodes[i].id : i \in 1..Len(nodes)} \cup {"output"}
        edgeErrs == IF parsed.hasEdges THEN EdgeErrors(parsed.edges, 1, nodeIdSet) ELSE <<>>
        budget == IF parsed.maxBudget # "" /\ BadBudget(parsed.maxBudget)
                  THEN <<Err(<<"maxBudget must be a positive number">>, <<"maxBudget">>)>>
                  ELSE <<>>
    IN  req \o NodeErrors(nodes, 1, {}) \o edgeErrs \o budget

\* WorkflowYAMLParser.toWorkflowDefinition (parseNodes, parseRetry, parseEdges)
parseRetry(retry) ==
    [present |-> TRUE, maxAttempts |-> IF retry.maxAttempts = 0 THEN 3 ELSE retry.maxAttempts]

toWorkflowDefinition(parsed) ==
    LET nodes == IF parsed.hasNodes THEN parsed.nodes ELSE <<>>
        edges == IF parsed.hasEdges THEN parsed.edges ELSE <<>>
    IN  [name    |-> parsed.name,
         version |-> parsed.version,
         nodes   |-> [i \in 1..Len(nodes) |->
                        [id    |-> nodes[i].id,
                         ref   |-> nodes[i].ref,
                         retry |-> IF ~nodes[i].retry.present THEN NoRetry
                                   ELSE parseRetry(nodes[i].retry)]],
         edges   |-> [i \in 1..Len(edges) |-> [from |-> edges[i].from, to |-> edges[i].to]],
         outputs |-> parsed.outputs]

\* WorkflowYAMLParser.parse: validate, then convert.
parse(parsed) ==
    LET validationErrors == validate(parsed)
    IN  IF Len(validationErrors) > 0
        THEN [valid |-> FALSE, errors |-> validationErrors, workflow |-> "undefined"]
        ELSE [valid |-> TRUE, errors |-> <<>>, workflow |-> toWorkflowDefinition(parsed)]

(***************************************************************************)
(* The service parser (src/workflow/yaml-parser.service.ts).  Its YAML     *)
(* document adds chain, token, entryNode and the format of the nodes       *)
(* section: "array" (a list of nodes with an id each) or "object" (a map   *)
(* keyed by node id).  validateYAML throws at the first defect; Ok is the  *)
(* outcome of a call that returned.                                        *)
(***************************************************************************)
Ok == <<>>

NodeExists(yaml, id) ==
    IF yaml.format = "array"
    THEN \E i \in 1..Len(yaml.nodes) : yaml.nodes[i].id = id
    ELSE id # "" /\ \E i \in 1..Len(yaml.nodes) : yaml.nodes[i].id = id

\* The first edge end, in array order and from before to, that names no node.
RECURSIVE FirstDanglingEdge(_, _)
FirstDanglingEdge(yaml, i) ==
    IF i > Len(yaml.edges) THEN Ok
    ELSE IF ~NodeExists(yaml, yaml.edges[i].from)
         THEN <<"Edge references non-existent node: ", yaml.edges[i].from>>
         ELSE IF ~NodeExists(yaml, yaml.edges[i].to)
              THEN <<"Edge references non-existent node: ", yaml.edges[i].to>>
              ELSE FirstDanglingEdge(yaml, i + 1)

validateYAML(yaml) ==
    IF yaml.name = "" THEN <<"Workflow name is required">>
    ELSE IF yaml.chain = "" \/ yaml.token = "" THEN <<"Chain and token are required">>
    ELSE IF yaml.maxBudget = "" THEN <<"maxBudget is required">>
    ELSE IF ~yaml.hasNodes THEN <<"Workflow must have at least one node">>
    ELSE IF Len(yaml.nodes) = 0 THEN <<"Workflow must have at least one node">>
    ELSE IF yaml.entryNode = "" THEN <<"entryNode is required">>
    ELSE IF ~NodeExists(yaml, yaml.entryNode)
         THEN <<"Entry node does not exist: ", yaml.entryNode>>
    ELSE IF yaml.hasEdges THEN FirstDanglingEdge(yaml, 1)
    ELSE Ok

\* yamlToWorkflowSpec: validateYAML, then the nodes and edges are copied;
\* yaml.edges.map throws a TypeError when the document has no edges array.
yamlToWorkflowSpec(yaml) ==
    LET err == validateYAML(yaml)
    IN  IF err # Ok THEN [ok |-> FALSE, error |-> err, nodes |-> <<>>, edges |-> <<>>, entryNodeId |-> ""]
        ELSE IF ~yaml.hasEdges
             THEN [ok |-> FALSE, error |-> <<"TypeError: yaml.edges is undefined">>,
                   nodes |-> <<>>, edges |-> <<>>, entryNodeId |-> ""]
             ELSE [ok |-> TRUE, error |-> Ok,
                   nodes |-> [i \in 1..Len(yaml.nodes) |->
                                [id |-> yaml.nodes[i].id, agentRef |-> yaml.nodes[i].ref,
                                 retryPolicy |-> yaml.nodes[i].retry]],
                   edges |-> [i \in 1..Len(yaml.edges) |->
                                [from |-> yaml.edges[i].from, to |-> yaml.edges[i].to]],
                   entryNodeId |-> yaml.entryNode]

\* WorkflowYAMLParser.parse of the service: every throw becomes a
\* WorkflowValidationError "Failed to parse YAML: ...".
serviceParse(yaml) ==
    LET r == yamlToWorkflowSpec(yaml)
    IN  IF r.ok THEN r ELSE [r EXCEPT !.error = <<"Failed to parse YAML: ">> \o r.error]

(***************************************************************************)
(* ExecutionEngine (command line).  runWorkflow parses the file with the   *)
(* parser above and hands result.workflow to the engine, so the engine     *)
(* only ever sees workflows the parser accepted.                           *)
(***************************************************************************)
\* Per-node shapes of the enumerated documents: agent ref and retry block.
NodeKinds ==
    {[ref |-> KnownRef, retry |-> NoRetry], [ref |-> UnknownRef, retry |-> NoRetry]}
        \cup {[ref |-> KnownRef, retry |-> RetryBlock(n)] : n \in RetryAttempts}

\* Output definitions: a key is a template naming a node id, or a literal.
OutputDefs == {<<>>, <<[key |-> "result", node |-> NodeOrder[1]]>>}

\* The edge lists of the enumerated documents (no edge from a node to itself).
EngineEdgeSeqs ==
    SeqsUpTo({e \in [from : Range(NodeOrder), to : Range(NodeOrder)] : e.from # e.to}, MaxEdges)

\* The workflow file with the nodes ids, of the kinds given, and the edges and outputs.
EngineDoc(ids, kinds, edges, outs) ==
    [name |-> "wf", version |-> "1.0.0", maxBudget |-> "5.0",
     hasNodes |-> TRUE, hasEdges |-> TRUE,
     nodes |-> [i \in 1..Len(ids) |-> [id |-> ids[i], ref |-> kinds[i].ref, retry |-> kinds[i].retry]],
     edges |-> edges, outputs |-> outs]

NoResult == [status |-> "running", error |-> <<>>, outputs |-> {}, hasOutputs |-> FALSE]

NodeById(id) == CHOOSE i \in 1..Len(workflow.nodes) : workflow.nodes[i].id = id

\* computeOutputs: a key is set when its node has a result with an output.
computeOutputs(results) ==
    LET defs == workflow.outputs
        has(d) == \E i \in 1..Len(results) : results[i].id = d.node /\ results[i].hasOutput
    IN  {defs[i].key : i \in {j \in 1..Len(defs) : has(defs[j])}}

CompletedResult(id) == [id |-> id, status |-> "completed", hasOutput |-> TRUE, error |-> <<>>]

FailedResult(id, msg) == [id |-> id, status |-> "failed", hasOutput |-> FALSE, error |-> msg]

\* The end of a loop iteration whose executeNode returned: push the result,
\* go on with the next node, or compute the outputs and return.
PushCompleted(node) ==
    LET pushed == Append(nodeResults, CompletedResult(node.id))
    IN  /\ nodeResults' = pushed
        /\ IF idx = Len(workflow.nodes)
           THEN /\ phase' = "done"
                /\ idx' = idx
                /\ result' = [status |-> "completed", error |-> <<>>,
                              outputs |-> computeOutputs(pushed), hasOutputs |-> TRUE]
           ELSE /\ phase' = "loop"
                /\ idx' = idx + 1
                /\ result' = result

EngineStart(wf) ==
    /\ workflow = wf
    /\ idx = 1
    /\ phase = "loop"
    /\ nodeResults = <<>>
    /\ result = NoResult
    /\ started = <<>>
    /\ invoked = <<>>

NoWorkflow == [name |-> "", version |-> "", nodes |-> <<>>, edges |-> <<>>, outputs |-> <<>>]

\* The engine before any workflow is loaded (the state of the other specifications).
EngineIdle == EngineStart(NoWorkflow)

ParseIdle ==
    /\ doc = <<>>
    /\ serviceResult = <<>>
    /\ standaloneResult = <<>>

CycleIdle ==
    /\ spec = <<>>
    /\ cycleResult = <<>>

RunIds == 1..MaxRuns

NoRun == [status |-> "none", error |-> <<>>, endedAt |-> "undefined", output |-> "undefined",
          nodes |-> 0]

NoResponse == [op |-> "none", success |-> FALSE, runId |-> 0, error |-> <<>>]

\* The keys of the tick manager: agent-1 is the agent the callers execute,
\* agent-2 an agent that was executed before and is idle now.
ActorKeys == {"agent-1", "agent-2"}

ExecutedKeys == {"agent-1"}

Callers == {"caller-1", "caller-2"}

NoTickConfig == [enabled |-> FALSE, intervalMs |-> 0, maxTicksPerRound |-> 0]

NoCall == [agentId |-> "", at |-> 0, result |-> TRUE]

\* A TickManager in which no tick of agent-1 is recorded and earlier ticks
\* of agent-2 are (none when earlier is 0: both maps empty), the last of
\* them one step ago.
TickStart(config, earlier) ==
    /\ now = StartTime
    /\ tickCounts = [k \in ActorKeys |-> IF k \in ExecutedKeys THEN 0 ELSE earlier]
    /\ lastTickTimes = [k \in ActorKeys |->
                          IF k \in ExecutedKeys \/ earlier = 0 THEN 0 ELSE StartTime - TimeStep]
    /\ tickConfig = config
    /\ lastCall = NoCall
    /\ acting = [c \in Callers |-> "idle"]
    /\ roundExecutions = [k \in ActorKeys |-> 0]
    /\ lastExecutionAt = [k \in ActorKeys |-> 0]

TickIdle == TickStart(NoTickConfig, 0)

\* A schedule that is not configured (undefined).
NoSchedule ==
    [configured |-> FALSE, startTime |-> <<>>, endTime |-> <<>>, timezone |-> "",
     hasDaysOfWeek |-> FALSE, daysOfWeek |-> {}]

NoScheduleCall == [asked |-> "none", within |-> TRUE, waitMs |-> 0]

NotStarted == [phase |-> "idle", waitTime |-> 0, dispatchedWithin |-> TRUE]

\* The scheduler before any call, at instant t with the given schedules.
ScheduleStart(t, workflowSchedule, dialogueSchedule) ==
    /\ wallClock = t
    /\ schedule = workflowSchedule
    /\ nodeSchedule = dialogueSchedule
    /\ scheduleCall = NoScheduleCall
    /\ simpleRun = NotStarted

ScheduleIdle == ScheduleStart(0, NoSchedule, NoSchedule)

NoDialogue ==
    [mode |-> "none", participants |-> <<>>, turns |-> <<>>, maxTurns |-> 0,
     endCondition |-> <<>>]

NoTurn == [speaker |-> "", prompt |-> <<>>]

NoNodeRun == [status |-> "none", turns |-> <<>>, error |-> <<>>]

\* executeDialogue(dialogueNode, ...) not yet called, for the given
\* DialogueConfig and registry.
DialogueStart(config, registered) ==
    /\ dialogue = config
    /\ agents = registered
    /\ dialogueContext = [turns |-> <<>>, conversationHistory |-> <<>>]
    /\ turnLoop = [phase |-> "idle", i |-> 0, calls |-> 0, turn |-> NoTurn]
    /\ nodeRun = NoNodeRun

DialogueIdle == DialogueStart(NoDialogue, {})

NotCalled == [done |-> FALSE]

\* The function f is about to be called with input.
FunctionStart(f, input) ==
    /\ argument = [op |-> f, input |-> input]
    /\ returned = NotCalled

FunctionIdle == FunctionStart("none", <<>>)

\* No register command runs and the registry file holds {}.
RegisterIdle == registry = <<>> /\ cli = <<>>

\* The components modelled after the client, before any call.
RestIdle == TickIdle /\ ScheduleIdle /\ DialogueIdle /\ FunctionIdle /\ RegisterIdle

\* A client that has answered no call: activeRuns is the empty map.
ClientIdle ==
    /\ activeRuns = {}
    /\ runs = [r \in RunIds |-> NoRun]
    /\ execution = [r \in RunIds |-> "none"]
    /\ inflight = [r \in RunIds |-> FALSE]
    /\ dispatched = [r \in RunIds |-> 0]
    /\ log = [r \in RunIds |-> <<>>]
    /\ response = NoResponse

EngineInit ==
    /\ \E ids \in Prefixes(NodeOrder), kinds \in [1..Len(NodeOrder) -> NodeKinds],
          edges \in EngineEdgeSeqs, outs \in OutputDefs :
          LET parsed == parse(EngineDoc(ids, kinds, edges, outs))
          IN  parsed.valid /\ EngineStart(parsed.workflow)
    /\ ParseIdle
    /\ CycleIdle
    /\ ClientIdle
    /\ RestIdle

\* execute on a workflow without nodes: the loop body never runs.
EngineReturnEmpty ==
    /\ phase = "loop"
    /\ Len(workflow.nodes) = 0
    /\ phase' = "done"
    /\ result' = [status |-> "completed", error |-> <<>>,
                  outputs |-> computeOutputs(nodeResults), hasOutputs |-> TRUE]
    /\ UNCHANGED <<workflow, idx, nodeResults, started, invoked>>
    /\ UNCHANGED nonEngineVars

\* executeNode for a ref with an endpoint: axios.post is sent and awaited.
EngineDispatch ==
    /\ phase = "loop"
    /\ idx <= Len(workflow.nodes)
    /\ workflow.nodes[idx].ref = KnownRef
    /\ started' = Append(started, workflow.nodes[idx].id)
    /\ invoked' = Append(invoked, workflow.nodes[idx].id)
    /\ phase' = "awaiting"
    /\ UNCHANGED <<workflow, idx, nodeResults, result>>
    /\ UNCHANGED nonEngineVars

\* executeNode for a ref without an endpoint: the fallback output, no call.
EngineFallback ==
    /\ phase = "loop"
    /\ idx <= Len(workflow.nodes)
    /\ workflow.nodes[idx].ref # KnownRef
    /\ started' = Append(started, workflow.nodes[idx].id)
    /\ PushCompleted(workflow.nodes[idx])
    /\ UNCHANGED <<workflow, invoked>>
    /\ UNCHANGED nonEngineVars

\* axios.post resolved: the node is completed.
EngineNodeSucceeds ==
    /\ phase = "awaiting"
    /\ PushCompleted(workflow.nodes[idx])
    /\ UNCHANGED <<workflow, started, invoked>>
    /\ UNCHANGED nonEngineVars

\* A failure that ends the run without telling why.
EngineNodeFailsUnexplained ==
    /\ phase = "awaiting"
    /\ \E m \in FailureMessages :
         nodeResults' = Append(nodeResults,
                               FailedResult(workflow.nodes[idx].id, <<"Agent call failed: ", m>>))
    /\ result' = [status |-> "failed", error |-> <<>>, outputs |-> {}, hasOutputs |-> FALSE]
    /\ phase' = "done"
    /\ UNCHANGED <<workflow, idx, started, invoked>>
    /\ UNCHANGED nonEngineVars

\* axios.post rejected (error status or the 120 s timeout): the node is
\* failed and execute returns at once.
EngineNodeFails ==
    /\ phase = "awaiting"
    /\ \E m \in FailureMessages :
         LET errorMessage == <<"Agent call failed: ", m>>
             node == workflow.nodes[idx]
         IN  /\ nodeResults' = Append(nodeResults, FailedResult(node.id, errorMessage))
             /\ result' = [status |-> "failed",
                           error |-> <<"Node ", node.id, " failed: ">> \o errorMessage,
                           outputs |-> {}, hasOutputs |-> FALSE]
    /\ phase' = "done"
    /\ UNCHANGED <<workflow, idx, started, invoked>>
    /\ UNCHANGED nonEngineVars

EngineNext ==
    \/ EngineReturnEmpty
    \/ EngineDispatch
    \/ EngineFallback
    \/ EngineNodeSucceeds
    \/ EngineNodeFails

SpecEngine == EngineInit /\ [][EngineNext]_vars

\* Every await of execute ends: axios.post resolves or rejects within its timeout.
FairSpecEngine == SpecEngine /\ WF_vars(EngineNext)

(***************************************************************************)
(* Graph vocabulary of the claims about the engine                         *)
(***************************************************************************)
DeclaredIds(wf) == {wf.nodes[i].id : i \in 1..Len(wf.nodes)}

EdgePairs(wf) == {<<wf.edges[i].from, wf.edges[i].to>> : i \in 1..Len(wf.edges)}

\* Nodes reachable from n along one or more edges.
RECURSIVE ReachFrom(_, _, _)
ReachFrom(E, frontier, seen) ==
    LET next == {e[2] : e \in {x \in E : x[1] \in frontier}} \ seen
    IN  IF next = {} THEN seen ELSE ReachFrom(E, next, seen \cup next)

Descendants(E, n) == ReachFrom(E, {n}, {})

IsAcyclic(E) == \A e \in E : e[1] \notin Descendants(E, e[1])

ResultOf(id) == {nodeResults[i] : i \in {j \in 1..Len(nodeResults) : nodeResults[j].id = id}}

TerminalStatuses == {"completed", "failed", "skipped"}

NodeTerminal(id) == \E r \in ResultOf(id) : r.status \in TerminalStatuses

Count(seq, x) == Cardinality({i \in 1..Len(seq) : seq[i] = x})

\* C1: in a valid workflow with an acyclic edge graph, a node that has
\* started executing has every node with an edge into it in a terminal state
\* (the predecessors were terminal when it started: results are never removed).
C1_StartsAfterPredecessors ==
    IsAcyclic(EdgePairs(workflow)) =>
        \A i \in 1..Len(started) :
            \A e \in EdgePairs(workflow) : e[2] = started[i] => NodeTerminal(e[1])

\* C2: once the run has ended after a node failed, every node depending on
\* the failed node, directly or transitively, is marked skipped, its agent
\* was never invoked, and the run is failed.
C2_DependentsSkipped ==
    (phase = "done" /\ IsAcyclic(EdgePairs(workflow))) =>
        \A i \in 1..Len(nodeResults) :
            nodeResults[i].status = "failed" =>
                /\ result.status = "failed"
                /\ \A d \in Descendants(EdgePairs(workflow), nodeResults[i].id) :
                      /\ \E r \in ResultOf(d) : r.status = "skipped"
                      /\ Count(invoked, d) = 0

\* The number of retries of a node: its invocations after the first.
retryCount(id) == IF Count(invoked, id) = 0 THEN 0 ELSE Count(invoked, id) - 1

\* C3: a node with a retry policy is marked failed only when its retryCount
\* has reached retryPolicy.maxAttempts.
C3_FailedOnlyAfterRetries ==
    \A i \in 1..Len(nodeResults) :
        LET r == nodeResults[i]
            node == workflow.nodes[NodeById(r.id)]
        IN  (r.status = "failed" /\ node.retry.present) =>
                retryCount(r.id) = node.retry.maxAttempts

FirstFailed ==
    LET failed == {i \in 1..Len(nodeResults) : nodeResults[i].status = "failed"}
    IN  nodeResults[CHOOSE i \in failed : \A j \in failed : i <= j]

RunTerminal == result.status \in {"completed", "failed", "cancelled"}

\* The output keys the workflow declares for one of its nodes.
DeclaredOutputs ==
    {workflow.outputs[i].key :
        i \in {j \in 1..Len(workflow.outputs) : workflow.outputs[j].node \in DeclaredIds(workflow)}}

DocIds == {"A", "B"}

DocFields == {"name", "version", "chain", "token", "maxBudget", "entryNode", "nodes", "edges"}

\* The sets of fields an enumerated document leaves out.
MissingChoices == {{}} \cup {{f} : f \in DocFields} \cup {{"name", "version"}}

DocNodeSeqs ==
    LET shapes == {[id |-> i, ref |-> KnownRef, retry |-> NoRetry] : i \in DocIds \cup {""}}
    IN  [1..1 -> shapes] \cup [1..2 -> shapes]

DocEdgeSeqs == SeqsUpTo([from : DocIds \cup {"output"}, to : DocIds \cup {"output"}], MaxDocEdges)

IdsDistinct(nodes) == \A i, j \in 1..Len(nodes) : nodes[i].id = nodes[j].id => i = j

\* The document that leaves out the fields missing.
ParseDoc(missing, entry, format, nodes, edges) ==
    [name      |-> IF "name" \in missing THEN "" ELSE "wf",
     version   |-> IF "version" \in missing THEN "" ELSE "1.0.0",
     chain     |-> IF "chain" \in missing THEN "" ELSE "base",
     token     |-> IF "token" \in missing THEN "" ELSE "USDC",
     maxBudget |-> IF "maxBudget" \in missing THEN "" ELSE "5.0",
     entryNode |-> IF "entryNode" \in missing THEN "" ELSE entry,
     format    |-> format,
     hasNodes  |-> "nodes" \notin missing,
     hasEdges  |-> "edges" \notin missing,
     nodes     |-> IF "nodes" \in missing THEN <<>> ELSE nodes,
     edges     |-> IF "edges" \in missing THEN <<>> ELSE edges,
     outputs   |-> <<>>]

ParseInit ==
    /\ \E missing \in MissingChoices, entry \in DocIds, format \in {"array", "object"},
          nodes \in DocNodeSeqs, edges \in DocEdgeSeqs :
          /\ doc = ParseDoc(missing, entry, format, nodes, edges)
          \* the keys of a YAML map are distinct and not empty
          /\ format = "object" =>
                 IdsDistinct(doc.nodes) /\ \A i \in 1..Len(doc.nodes) : doc.nodes[i].id # ""
    /\ serviceResult = <<>>
    /\ standaloneResult = <<>>
    /\ EngineIdle
    /\ CycleIdle
    /\ ClientIdle
    /\ RestIdle

\* parser.parse(yaml, userId) of the service
ParseService ==
    /\ serviceResult = <<>>
    /\ serviceResult' = <<serviceParse(doc)>>
    /\ UNCHANGED <<doc, standaloneResult>>
    /\ UNCHANGED nonParseVars

\* parser.parse(yaml) of the standalone parser; it reads array nodes only
ParseStandalone ==
    /\ standaloneResult = <<>>
    /\ doc.format = "array"
    /\ standaloneResult' = <<parse(doc)>>
    /\ UNCHANGED <<doc, serviceResult>>
    /\ UNCHANGED nonParseVars

ParseNext == ParseService \/ ParseStandalone

SpecParse == ParseInit /\ [][ParseNext]_vars

\* The edge graph of a parse result, as pairs.
PairsOf(edges) == {<<edges[i].from, edges[i].to>> : i \in 1..Len(edges)}

IdsOf(nodes) == {nodes[i].id : i \in 1..Len(nodes)}

\* The edges of a parse result that run between declared nodes, as pairs.
NodeGraph(nodes, edges) ==
    {p \in PairsOf(edges) : p[1] \in IdsOf(nodes) /\ p[2] \in IdsOf(nodes)}

\* C8: a workflow that passed validation (either parser returned it) has an
\* acyclic edge graph over its nodes.
C8_ValidatedIsAcyclic ==
    /\ \A i \in 1..Len(serviceResult) :
          LET r == serviceResult[i]
          IN  r.ok => IsAcyclic(NodeGraph(r.nodes, r.edges))
    /\ \A i \in 1..Len(standaloneResult) :
          LET r == standaloneResult[i]
          IN  r.valid => IsAcyclic(NodeGraph(r.workflow.nodes, r.workflow.edges))

\* C10: a workflow returned by a successful parse has pairwise distinct node
\* ids, and the from and to of each edge name a declared node (stated for the
\* service parser, whose result is the WorkflowSpec).
C10_ParsedIdsAndEdges ==
    \A i \in 1..Len(serviceResult) :
        LET r == serviceResult[i]
        IN  r.ok => /\ IdsDistinct(r.nodes)
                    /\ \A e \in PairsOf(r.edges) : e[1] \in IdsOf(r.nodes) /\ e[2] \in IdsOf(r.nodes)

\* The edge ends of a document that name no node ("output" is the name the
\* standalone parser keeps for the workflow's output).
DanglingEnds(d) ==
    {x \in {d.edges[i].from : i \in 1..Len(d.edges)} \cup {d.edges[i].to : i \in 1..Len(d.edges)} :
        x \notin IdsOf(d.nodes) \cup {"", "output"}}

\* The ids that more than one node of a document has.
DuplicateIds(d) ==
    {d.nodes[i].id : i \in {k \in 1..Len(d.nodes) : \E j \in 1..k - 1 : d.nodes[j].id = d.nodes[k].id}}
        \ {""}

\* The message of a thrown error holds the text given.
Mentions(error, text) ==
    \E i \in 1..Len(error) - Len(text) + 1 : SubSeq(error, i, i + Len(text) - 1) = text

\* C11: one validation call reports every structural defect of the document:
\* a missing name, each duplicate node id and each edge end naming no node
\* (for the service parser: a missing name together with each such edge end).
C11_AllDefectsReported ==
    /\ \A i \in 1..Len(standaloneResult) :
          LET errors == standaloneResult[i].errors
              reported(message) == \E k \in 1..Len(errors) : errors[k].message = message
          IN  /\ doc.name = "" => reported(<<"Workflow name is required">>)
              /\ \A id \in DuplicateIds(doc) : reported(<<"Duplicate node ID: ", id>>)
              /\ \A x \in DanglingEnds(doc) : reported(<<"Edge references non-existent node: ", x>>)
    /\ \A i \in 1..Len(serviceResult) :
          LET error == serviceResult[i].error
          IN  doc.name = "" =>
                  /\ Mentions(error, <<"Workflow name is required">>)
                  /\ \A x \in DanglingEnds(doc) :
                        Mentions(error, <<"Edge references non-existent node: ", x>>)

(***************************************************************************)
(* detectCycles of the workflow validator (docs/CHALLENGES.md): a          *)
(* depth-first search along node.depends with the sets visited and         *)
(* recursionStack and the list errors shared by all calls of dfs.          *)
(* A search state is [visited, recursionStack, errors, found], found being *)
(* the value dfs returned.                                                 *)
(***************************************************************************)
FindNode(nodes, nodeId) ==
    LET hits == {i \in 1..Len(nodes) : nodes[i].id = nodeId}
    IN  IF hits = {} THEN 0 ELSE CHOOSE i \in hits : \A j \in hits : i <= j

RECURSIVE dfs(_, _, _, _)
RECURSIVE dfsDependencies(_, _, _, _, _, _)

\* The for-loop of dfs over dependencies[k..], for the node nodeId.
dfsDependencies(nodes, nodeId, dependencies, k, path, st) ==
    IF k > Len(dependencies)
    THEN [st EXCEPT !.recursionStack = @ \ {nodeId}, !.found = FALSE]
    ELSE LET depId == dependencies[k]
         IN  IF depId \notin st.visited
             THEN LET sub == dfs(nodes, depId, Append(path, depId), st)
                  IN  IF sub.found THEN sub
                      ELSE dfsDependencies(nodes, nodeId, dependencies, k + 1, path, sub)
             ELSE IF depId \in st.recursionStack
                  THEN [st EXCEPT !.errors = Append(@, Append(path, depId)), !.found = TRUE]
                  ELSE dfsDependencies(nodes, nodeId, dependencies, k + 1, path, st)

dfs(nodes, nodeId, path, st) ==
    LET entered == [st EXCEPT !.visited = @ \cup {nodeId},
                              !.recursionStack = @ \cup {nodeId},
                              !.found = FALSE]
        at == FindNode(nodes, nodeId)
    IN  IF at = 0 THEN entered
        ELSE dfsDependencies(nodes, nodeId, nodes[at].depends, 1, path, entered)

\* The loop over spec.nodes that starts a dfs at every node not yet visited.
RECURSIVE detectFrom(_, _, _)
detectFrom(nodes, i, st) ==
    IF i > Len(nodes) THEN st
    ELSE IF nodes[i].id \notin st.visited
         THEN detectFrom(nodes, i + 1, dfs(nodes, nodes[i].id, <<nodes[i].id>>, st))
         ELSE detectFrom(nodes, i + 1, st)

detectCycles(nodes) ==
    LET st == detectFrom(nodes, 1,
                  [visited |-> {}, recursionStack |-> {}, errors |-> <<>>, found |-> FALSE])
    IN  [valid |-> Len(st.errors) = 0, errors |-> st.errors]

\* Largest number of entries of a depends list.
MaxDepends == 2

\* Ids a depends list may name: the declared ids and one undeclared id.
DependsIds == Range(NodeOrder) \cup {"Z"}

DependsLists ==
    {d \in SeqsUpTo(DependsIds, MaxDepends) : \A i, j \in 1..Len(d) : d[i] = d[j] => i = j}

\* spec.nodes with the ids given and their depends lists.
CycleSpec(ids, deps) == [i \in 1..Len(ids) |-> [id |-> ids[i], depends |-> deps[i]]]

CycleInit ==
    /\ \E ids \in Prefixes(NodeOrder) \ {<<>>}, deps \in [1..Len(NodeOrder) -> DependsLists] :
          spec = CycleSpec(ids, deps)
    /\ cycleResult = <<>>
    /\ EngineIdle
    /\ ParseIdle
    /\ ClientIdle
    /\ RestIdle

DetectCycles ==
    /\ cycleResult = <<>>
    /\ cycleResult' = <<detectCycles(spec)>>
    /\ UNCHANGED spec
    /\ UNCHANGED nonCycleVars

CycleNext == DetectCycles

SpecCycles == CycleInit /\ [][CycleNext]_vars

\* The dependency relation of spec.nodes: <<n, d>> when n depends on d.
DependsPairs(nodes) ==
    UNION {{<<nodes[i].id, d>> : d \in Range(nodes[i].depends)} : i \in 1..Len(nodes)}

\* path ends by closing a cycle of the graph: its last node occurs earlier in
\* it, and from there on every node depends on the node before it in the path.
ClosesCycle(nodes, path) ==
    \E k \in 1..Len(path) - 1 :
        /\ path[k] = path[Len(path)]
        /\ \A j \in k..Len(path) - 1 :
              \E i \in 1..Len(nodes) : nodes[i].id = path[j] /\ path[j + 1] \in Range(nodes[i].depends)

HasCycle(nodes) == ~IsAcyclic({p \in DependsPairs(nodes) : p[2] \in IdsOf(nodes)})

\* C9: every graph with a cycle, in whatever component, gets an error, and
\* the error reported first is a path that closes a cycle of the graph in
\* traversal order, ending on the node it revisits.
C9_CycleReported ==
    \A i \in 1..Len(cycleResult) :
        LET r == cycleResult[i]
        IN  HasCycle(spec) => (~r.valid /\ Len(r.errors) > 0 /\ ClosesCycle(spec, r.errors[1]))

(***************************************************************************)
(* WorkflowClient (src/frontend/workflow-client.ts): execute, executeAsync *)
(* and cancel over the map activeRuns.  The validator and the scheduler    *)
(* answer a call with Ok or with the message of the error they throw.  The *)
(* execution engine behind executor.executeRun is not part of the sources  *)
(* at hand; it is modelled after the specification: it dispatches the      *)
(* nodes of a run one after the other while the run is queued or running,  *)
(* lets an invocation in flight finish after a cancellation and discards   *)
(* its result.                                                             *)
(***************************************************************************)
ClientDoc(name, nodeIds, edges) ==
    [name |-> name, version |-> "1.0.0", chain |-> "base", token |-> "USDC",
     maxBudget |-> "5.0", entryNode |-> "A", format |-> "array",
     hasNodes |-> TRUE, hasEdges |-> TRUE,
     nodes |-> [i \in 1..Len(nodeIds) |-> [id |-> nodeIds[i], ref |-> KnownRef, retry |-> NoRetry]],
     edges |-> edges, outputs |-> <<>>]

\* The YAML documents of the requests: two the parser accepts and two it rejects.
ClientDocs ==
    { ClientDoc("wf", <<"A">>, <<>>),
      ClientDoc("wf", <<"A", "B">>, <<[from |-> "A", to |-> "B"]>>),
      ClientDoc("", <<"A">>, <<>>),
      ClientDoc("wf", <<"A">>, <<[from |-> "A", to |-> "B"]>>) }

\* request.yaml is <<d>>, or <<>> when the request carries no YAML.
ExecuteRequests ==
    {[yaml |-> <<d>>, hasWorkflowId |-> FALSE] : d \in ClientDocs}
        \cup {[yaml |-> <<>>, hasWorkflowId |-> b] : b \in BOOLEAN}

\* parser.parse(request.yaml, request.userId) for each of the documents.
ParsedDoc == [d \in ClientDocs |-> serviceParse(d)]

ValidationOutcomes == {Ok, <<"Workflow contains cycles">>}

SchedulingOutcomes == {Ok, <<"Insufficient budget">>}

ExecutionErrors == {<<"Agent unreachable">>}

\* The message of the first error thrown inside the try block of execute, or Ok.
ExecuteFailure(request, validation, scheduling) ==
    IF Len(request.yaml) > 0
    THEN LET parsed == ParsedDoc[request.yaml[1]]
         IN  IF ~parsed.ok THEN parsed.error
             ELSE IF validation # Ok THEN <<"Validation failed: ">> \o validation
             ELSE scheduling
    ELSE IF request.hasWorkflowId THEN <<"Loading saved workflows not yet implemented">>
    ELSE <<"Either workflowId or yaml must be provided">>

\* scheduler.scheduleRun: a fresh run id and a queued run.
NextRunId == Cardinality({r \in RunIds : runs[r].status # "none"}) + 1

QueuedRun(request) ==
    [NoRun EXCEPT !.status = "queued", !.nodes = Len(ParsedDoc[request.yaml[1]].nodes)]

\* execute that stores the run before it validates and schedules.
ExecuteRegistersFirst(request, validation, scheduling) ==
    LET failure == ExecuteFailure(request, validation, scheduling)
        parsed == Len(request.yaml) > 0 /\ ParsedDoc[request.yaml[1]].ok
    IN  /\ parsed => NextRunId \in RunIds
        /\ IF parsed
           THEN /\ runs' = [runs EXCEPT ![NextRunId] = QueuedRun(request)]
                /\ activeRuns' = activeRuns \cup {NextRunId}
                /\ execution' = [execution EXCEPT ![NextRunId] =
                                    IF failure = Ok THEN "pending" ELSE "none"]
           ELSE UNCHANGED <<runs, activeRuns, execution>>
        /\ response' = [op |-> "execute", success |-> failure = Ok,
                        runId |-> IF failure = Ok THEN NextRunId ELSE 0, error |-> failure]
        /\ UNCHANGED <<inflight, dispatched, log>>
        /\ UNCHANGED nonClientVars

\* execute(request): parse, validate, schedule, store the run, start
\* executeAsync and return; any throw returns success false with its message.
Execute(request, validation, scheduling) ==
    LET failure == ExecuteFailure(request, validation, scheduling)
    IN  /\ failure = Ok => NextRunId \in RunIds
        /\ IF failure = Ok
           THEN /\ runs' = [runs EXCEPT ![NextRunId] = QueuedRun(request)]
                /\ activeRuns' = activeRuns \cup {NextRunId}
                /\ execution' = [execution EXCEPT ![NextRunId] = "pending"]
                /\ response' = [op |-> "execute", success |-> TRUE, runId |-> NextRunId,
                                error |-> Ok]
           ELSE /\ response' = [op |-> "execute", success |-> FALSE, runId |-> 0,
                                error |-> failure]
                /\ UNCHANGED <<runs, activeRuns, execution>>
        /\ UNCHANGED <<inflight, dispatched, log>>
        /\ UNCHANGED nonClientVars

\* The executor starts the next node of a run that is neither cancelled nor finished.
ExecutorDispatch(r) ==
    /\ execution[r] = "pending"
    /\ runs[r].status \in {"queued", "running"}
    /\ ~inflight[r]
    /\ dispatched[r] < runs[r].nodes
    /\ runs' = [runs EXCEPT ![r].status = "running"]
    /\ inflight' = [inflight EXCEPT ![r] = TRUE]
    /\ dispatched' = [dispatched EXCEPT ![r] = @ + 1]
    /\ log' = [log EXCEPT ![r] = Append(@, "dispatch")]
    /\ UNCHANGED <<activeRuns, execution, response>>
    /\ UNCHANGED nonClientVars

\* The invocation in flight returns a result (discarded when the run was cancelled).
ExecutorNodeCompletes(r) ==
    /\ inflight[r]
    /\ inflight' = [inflight EXCEPT ![r] = FALSE]
    /\ UNCHANGED <<activeRuns, runs, execution, dispatched, log, response>>
    /\ UNCHANGED nonClientVars

\* The invocation in flight fails for good: the run fails unless it was cancelled.
ExecutorNodeFails(r, message) ==
    /\ inflight[r]
    /\ inflight' = [inflight EXCEPT ![r] = FALSE]
    /\ runs' = IF runs[r].status = "running"
               THEN [runs EXCEPT ![r].status = "failed", ![r].error = message,
                                 ![r].endedAt = "set"]
               ELSE runs
    /\ UNCHANGED <<activeRuns, execution, dispatched, log, response>>
    /\ UNCHANGED nonClientVars

\* executor.executeRun resolves with the run, completed if every node ran; the
\* continuation of executeAsync stores it under its run id.
ExecuteRunReturns(r) ==
    /\ execution[r] = "pending"
    /\ ~inflight[r]
    /\ runs[r].status \in {"queued", "running"} => dispatched[r] = runs[r].nodes
    /\ runs' = IF runs[r].status \in {"queued", "running"}
               THEN [runs EXCEPT ![r].status = "completed", ![r].output = "set",
                                 ![r].endedAt = "set"]
               ELSE runs
    /\ activeRuns' = activeRuns \cup {r}
    /\ execution' = [execution EXCEPT ![r] = "settled"]
    /\ UNCHANGED <<inflight, dispatched, log, response>>
    /\ UNCHANGED nonClientVars

\* executor.executeRun rejects: the catch block of executeAsync marks the
\* stored run failed with the message, whatever its status.
ExecuteRunThrows(r, message) ==
    /\ execution[r] = "pending"
    /\ runs' = IF r \in activeRuns
               THEN [runs EXCEPT ![r].status = "failed", ![r].error = message]
               ELSE runs
    /\ inflight' = [inflight EXCEPT ![r] = FALSE]
    /\ execution' = [execution EXCEPT ![r] = "settled"]
    /\ UNCHANGED <<activeRuns, dispatched, log, response>>
    /\ UNCHANGED nonClientVars

Cancellable(runId) == runId \in activeRuns /\ runs[runId].status \in {"running", "queued"}

\* cancel that marks the run cancelled but records no end time.
CancelWithoutEndTime(runId) ==
    /\ IF Cancellable(runId)
       THEN /\ runs' = [runs EXCEPT ![runId].status = "cancelled",
                                    ![runId].error = <<"Cancelled by user">>]
            /\ log' = [log EXCEPT ![runId] = Append(@, "Run cancelled")]
       ELSE UNCHANGED <<runs, log>>
    /\ response' = [op |-> "cancel", success |-> Cancellable(runId), runId |-> runId,
                    error |-> Ok]
    /\ UNCHANGED <<activeRuns, execution, inflight, dispatched>>
    /\ UNCHANGED nonClientVars

\* cancel(runId)
Cancel(runId) ==
    /\ IF Cancellable(runId)
       THEN /\ runs' = [runs EXCEPT ![runId].status = "cancelled",
                                    ![runId].error = <<"Cancelled by user">>,
                                    ![runId].endedAt = "set"]
            /\ log' = [log EXCEPT ![runId] = Append(@, "Run cancelled")]
       ELSE UNCHANGED <<runs, log>>
    /\ response' = [op |-> "cancel", success |-> Cancellable(runId), runId |-> runId,
                    error |-> Ok]
    /\ UNCHANGED <<activeRuns, execution, inflight, dispatched>>
    /\ UNCHANGED nonClientVars

ClientInit ==
    /\ ClientIdle
    /\ EngineIdle
    /\ ParseIdle
    /\ CycleIdle
    /\ RestIdle

ClientNext ==
    \/ \E request \in ExecuteRequests, validation \in ValidationOutcomes,
          scheduling \in SchedulingOutcomes : Execute(request, validation, scheduling)
    \/ \E r \in RunIds : ExecutorDispatch(r)
    \/ \E r \in RunIds : ExecutorNodeCompletes(r)
    \/ \E r \in RunIds, message \in ExecutionErrors : ExecutorNodeFails(r, message)
    \/ \E r \in RunIds : ExecuteRunReturns(r)
    \/ \E r \in RunIds, message \in ExecutionErrors : ExecuteRunThrows(r, message)
    \/ \E runId \in RunIds \cup {MaxRuns + 1} : Cancel(runId)

SpecClient == ClientInit /\ [][ClientNext]_vars

TerminalRunStatuses == {"completed", "failed", "cancelled"}

\* C5: cancel on a stored run that is queued or running sets its status to
\* cancelled, sets its end time and returns true; and no node of a run is
\* dispatched after the run was cancelled.
C5_CancelStopsRun ==
    /\ [][\A runId \in RunIds :
             (Cancellable(runId) /\ Cancel(runId)) =>
                 /\ runs'[runId].status = "cancelled"
                 /\ runs'[runId].endedAt = "set"
                 /\ response' = [op |-> "cancel", success |-> TRUE, runId |-> runId, error |-> Ok]]_vars
    /\ [](\A r \in RunIds : \A i, j \in 1..Len(log[r]) :
             (log[r][i] = "Run cancelled" /\ i < j) => log[r][j] # "dispatch")

\* A run with two nodes was cancelled while its first node was in flight, and
\* executeRun has returned without dispatching the second.
C5_Witness ==
    \E r \in RunIds :
        /\ log[r] = <<"dispatch", "Run cancelled">>
        /\ runs[r].nodes = 2
        /\ runs[r].status = "cancelled"
        /\ runs[r].endedAt = "set"
        /\ execution[r] = "settled"
        /\ response.op = "cancel" /\ response.success

\* C6: a terminal status never changes, whatever the order of cancel and of
\* the end of the execution; and cancel on a run that is terminal or not
\* stored returns false and changes no run.
C6_TerminalStatusFinal ==
    /\ [][\A r \in RunIds :
             runs[r].status \in TerminalRunStatuses => runs'[r].status = runs[r].status]_vars
    /\ [][\A runId \in RunIds \cup {MaxRuns + 1} :
             (~Cancellable(runId) /\ Cancel(runId)) =>
                 /\ ~response'.success
                 /\ runs' = runs]_vars

\* A cancelled run whose execution then rejected.
C6_Witness ==
    \E r \in RunIds :
        /\ log[r] = <<"dispatch", "Run cancelled">>
        /\ execution[r] = "settled"
        /\ runs[r].status = "failed"

\* C7: when parsing, validation or scheduling fails, execute returns success
\* false with a message and stores no run; and no node is dispatched for a
\* workflow without a stored run.
C7_FailedExecuteStartsNothing ==
    /\ [][\A request \in ExecuteRequests, validation \in ValidationOutcomes,
             scheduling \in SchedulingOutcomes :
             (/\ Len(request.yaml) > 0
              /\ \/ ~ParsedDoc[request.yaml[1]].ok
                 \/ validation # Ok
                 \/ scheduling # Ok
              /\ Execute(request, validation, scheduling)) =>
                 /\ response'.op = "execute"
                 /\ ~response'.success
                 /\ response'.error # Ok
                 /\ activeRuns' = activeRuns
                 /\ runs' = runs
                 /\ execution' = execution]_vars
    /\ [](\A r \in RunIds :
             (dispatched[r] > 0 \/ execution[r] # "none" \/ runs[r].status # "none")
                 => r \in activeRuns)

\* execute was refused for lack of budget before any run was stored.
C7_Witness ==
    /\ response.op = "execute"
    /\ ~response.success
    /\ response.error = <<"Insufficient budget">>
    /\ activeRuns = {}

(***************************************************************************)
(* TickManager (src/execution/scheduler.service.ts) and callers that use   *)
(* it as documented: shouldExecute, then the awaited agent execution, then *)
(* recordTick.  tickConfig.intervalMs and tickConfig.maxTicksPerRound are  *)
(* 0 when the config leaves them out.                                      *)
(***************************************************************************)
IntervalChoices == {0, 1000, 2000}

MaxTicksChoices == {0, 1, 2}

TickConfigs ==
    [enabled : BOOLEAN, intervalMs : IntervalChoices, maxTicksPerRound : MaxTicksChoices]

\* shouldExecute that looks at the interval only.
shouldExecuteIgnoringMaxTicks(agentId, config) ==
    IF ~config.enabled THEN TRUE
    ELSE now - lastTickTimes[agentId]
            >= (IF config.intervalMs = 0 THEN DefaultIntervalMs ELSE config.intervalMs)

\* shouldExecute that lets a key at its tick limit through once more.
shouldExecutePastLimit(agentId, config) ==
    IF ~config.enabled THEN TRUE
    ELSE IF now - lastTickTimes[agentId]
               < (IF config.intervalMs = 0 THEN DefaultIntervalMs ELSE config.intervalMs)
         THEN FALSE
         ELSE ~(config.maxTicksPerRound # 0 /\ tickCounts[agentId] > config.maxTicksPerRound)

\* shouldExecute(agentId, tickConfig)
shouldExecute(agentId, config) ==
    IF ~config.enabled THEN TRUE
    ELSE LET lastTick == lastTickTimes[agentId]
             intervalMs == IF config.intervalMs = 0 THEN DefaultIntervalMs ELSE config.intervalMs
         IN  IF now - lastTick < intervalMs THEN FALSE
             ELSE IF config.maxTicksPerRound # 0 /\ tickCounts[agentId] >= config.maxTicksPerRound
                  THEN FALSE
                  ELSE TRUE

\* getTimeUntilNextTick(agentId, tickConfig)
getTimeUntilNextTick(agentId, config) ==
    IF ~config.enabled \/ config.intervalMs = 0 THEN 0
    ELSE LET lastTick == lastTickTimes[agentId]
             intervalMs == config.intervalMs
             timeSinceLastTick == now - lastTick
         IN  IF timeSinceLastTick >= intervalMs THEN 0
             ELSE intervalMs - timeSinceLastTick

\* A shouldExecute that records the tick itself when it returns true.
CallShouldExecuteRecording(caller, agentId) ==
    /\ acting[caller] = "idle"
    /\ roundExecutions[agentId] < MaxExecutions
    /\ lastCall' = [agentId |-> agentId, at |-> now,
                    result |-> shouldExecute(agentId, tickConfig)]
    /\ IF shouldExecute(agentId, tickConfig)
       THEN /\ acting' = [acting EXCEPT ![caller] = agentId]
            /\ roundExecutions' = [roundExecutions EXCEPT ![agentId] = @ + 1]
            /\ lastExecutionAt' = [lastExecutionAt EXCEPT ![agentId] = now]
            /\ tickCounts' = [tickCounts EXCEPT ![agentId] = @ + 1]
            /\ lastTickTimes' = [lastTickTimes EXCEPT ![agentId] = now]
       ELSE UNCHANGED <<acting, roundExecutions, lastExecutionAt, tickCounts, lastTickTimes>>
    /\ UNCHANGED <<now, tickConfig>>
    /\ UNCHANGED nonTickVars

\* A caller asks shouldExecute for a key and, when it may, starts the agent.
CallShouldExecute(caller, agentId) ==
    /\ acting[caller] = "idle"
    /\ roundExecutions[agentId] < MaxExecutions
    /\ lastCall' = [agentId |-> agentId, at |-> now,
                    result |-> shouldExecute(agentId, tickConfig)]
    /\ IF shouldExecute(agentId, tickConfig)
       THEN /\ acting' = [acting EXCEPT ![caller] = agentId]
            /\ roundExecutions' = [roundExecutions EXCEPT ![agentId] = @ + 1]
            /\ lastExecutionAt' = [lastExecutionAt EXCEPT ![agentId] = now]
       ELSE UNCHANGED <<acting, roundExecutions, lastExecutionAt>>
    /\ UNCHANGED <<now, tickCounts, lastTickTimes, tickConfig>>
    /\ UNCHANGED nonTickVars

\* recordTick that counts the tick without noting its time.
recordTickUntimed(caller) ==
    /\ acting[caller] # "idle"
    /\ tickCounts' = [tickCounts EXCEPT ![acting[caller]] = @ + 1]
    /\ acting' = [acting EXCEPT ![caller] = "idle"]
    /\ UNCHANGED <<now, lastTickTimes, tickConfig, lastCall, roundExecutions, lastExecutionAt>>
    /\ UNCHANGED nonTickVars

\* The agent execution of a caller has returned: recordTick(agentId).
recordTick(caller) ==
    /\ acting[caller] # "idle"
    /\ lastTickTimes' = [lastTickTimes EXCEPT ![acting[caller]] = now]
    /\ tickCounts' = [tickCounts EXCEPT ![acting[caller]] = @ + 1]
    /\ acting' = [acting EXCEPT ![caller] = "idle"]
    /\ UNCHANGED <<now, tickConfig, lastCall, roundExecutions, lastExecutionAt>>
    /\ UNCHANGED nonTickVars

\* resetRound that forgets the key: count and last tick time both cleared.
resetRoundForgetsKey(agentId) ==
    /\ tickCounts' = [tickCounts EXCEPT ![agentId] = 0]
    /\ lastTickTimes' = [lastTickTimes EXCEPT ![agentId] = 0]
    /\ roundExecutions' = [roundExecutions EXCEPT ![agentId] = 0]
    /\ UNCHANGED <<now, tickConfig, lastCall, acting, lastExecutionAt>>
    /\ UNCHANGED nonTickVars

\* resetRound(agentId)
resetRound(agentId) ==
    /\ tickCounts' = [tickCounts EXCEPT ![agentId] = 0]
    /\ roundExecutions' = [roundExecutions EXCEPT ![agentId] = 0]
    /\ UNCHANGED <<now, lastTickTimes, tickConfig, lastCall, acting, lastExecutionAt>>
    /\ UNCHANGED nonTickVars

\* Time passes.
AdvanceClock ==
    /\ now < StartTime + MaxAdvances * TimeStep
    /\ now' = now + TimeStep
    /\ UNCHANGED <<tickCounts, lastTickTimes, tickConfig, lastCall, acting, roundExecutions,
                   lastExecutionAt>>
    /\ UNCHANGED nonTickVars

TickInit ==
    /\ \E config \in TickConfigs, earlier \in 0..MaxEarlierTicks : TickStart(config, earlier)
    /\ ScheduleIdle
    /\ DialogueIdle
    /\ FunctionIdle
    /\ RegisterIdle
    /\ EngineIdle
    /\ ParseIdle
    /\ CycleIdle
    /\ ClientIdle

TickNext ==
    \/ \E caller \in Callers, agentId \in ExecutedKeys : CallShouldExecute(caller, agentId)
    \/ \E caller \in Callers : recordTick(caller)
    \/ \E agentId \in ActorKeys : resetRound(agentId)
    \/ AdvanceClock

SpecTick == TickInit /\ [][TickNext]_vars

\* The condition under which shouldExecute is to return false: the gate is
\* enabled and either less than interval ms have passed since the key's last
\* recorded tick, or maxTicksPerRound is configured and reached.
GateBlocks(agentId, interval) ==
    /\ tickConfig.enabled
    /\ \/ lastTickTimes[agentId] # 0 /\ now - lastTickTimes[agentId] < interval
       \/ tickConfig.maxTicksPerRound # 0 /\ tickCounts[agentId] >= tickConfig.maxTicksPerRound

BudgetLeft(agentId) ==
    \/ tickConfig.maxTicksPerRound = 0
    \/ tickCounts[agentId] < tickConfig.maxTicksPerRound

\* C13: with an enabled config of interval I, recordTick(key) at time t
\* notes t as the key's last tick; from then on shouldExecute(key) is false
\* at every time before t + I and, with tick budget left, true at or after
\* t + I; resetRound(key) leaves t alone, so a call before t + I stays false
\* after it.
C13_IntervalAfterTick ==
    /\ [](\A agentId \in ActorKeys :
            (tickConfig.enabled /\ tickConfig.intervalMs # 0 /\ lastTickTimes[agentId] # 0) =>
                /\ now < lastTickTimes[agentId] + tickConfig.intervalMs =>
                       ~shouldExecute(agentId, tickConfig)
                /\ (now >= lastTickTimes[agentId] + tickConfig.intervalMs /\ BudgetLeft(agentId)) =>
                       shouldExecute(agentId, tickConfig))
    /\ [][\A caller \in Callers :
            (acting[caller] # "idle" /\ recordTick(caller)) =>
                lastTickTimes'[acting[caller]] = now]_vars
    /\ [][\A agentId \in ActorKeys :
            resetRound(agentId) => lastTickTimes'[agentId] = lastTickTimes[agentId]]_vars

\* A call made after a resetRound, before the interval since the last tick
\* has passed, returned false.
C13_Witness ==
    /\ lastCall.agentId \in ActorKeys
    /\ lastCall.at = now
    /\ ~lastCall.result
    /\ tickConfig.enabled
    /\ tickConfig.intervalMs = 2000
    /\ tickConfig.maxTicksPerRound = 1
    /\ tickCounts[lastCall.agentId] = 0
    /\ lastTickTimes[lastCall.agentId] # 0
    /\ now > lastTickTimes[lastCall.agentId]
    /\ now < lastTickTimes[lastCall.agentId] + 2000

\* C14: callers that share one actor key, each doing shouldExecute, then the
\* action, then recordTick, never start more executions in a round than
\* maxTicksPerRound, and never start two executions for the key less than
\* intervalMs apart.
C14_GateIsExclusive ==
    /\ [](\A agentId \in ActorKeys :
            (tickConfig.enabled /\ tickConfig.intervalMs # 0
                                /\ tickConfig.maxTicksPerRound # 0) =>
                roundExecutions[agentId] <= tickConfig.maxTicksPerRound)
    /\ [][\A caller \in Callers, agentId \in ActorKeys :
            (/\ CallShouldExecute(caller, agentId)
             /\ tickConfig.enabled
             /\ tickConfig.intervalMs # 0
             /\ lastCall'.result
             /\ lastExecutionAt[agentId] # 0) =>
                now - lastExecutionAt[agentId] >= tickConfig.intervalMs]_vars


\* ------------------------------------------------------------------
\* AgentScheduler (scheduler.service.ts) and the schedule check of
\* executeSimpleWorkflow (run-yaml-workflow.ts).  Instants are whole
\* minutes; minute 0 is a Sunday 00:00 UTC and the process runs in UTC.
\* Strings are sequences of characters.
\* ------------------------------------------------------------------

Digits == <<"0", "1", "2", "3", "4", "5", "6", "7", "8", "9">>

\* The code unit of a character of a time string.
CharCode(c) == IF c = ":" THEN 58 ELSE 47 + (CHOOSE i \in 1..10 : Digits[i] = c)

\* a < b on strings: the comparison of the code units, left to right.
StringLess(a, b) ==
    \E i \in 1..Len(b) :
        /\ \A j \in 1..i - 1 : j <= Len(a) /\ a[j] = b[j]
        /\ \/ i = Len(a) + 1
           \/ i <= Len(a) /\ CharCode(a[i]) < CharCode(b[i])

\* n.toString().padStart(2, '0') for 0 <= n < 100
padStart2(n) == IF n < 10 THEN <<"0", Digits[n + 1]>> ELSE <<Digits[(n \div 10) + 1], Digits[(n % 10) + 1]>>

\* Number(text) for a string of digits
RECURSIVE ToNumber(_)
ToNumber(text) ==
    IF text = <<>> THEN 0
    ELSE 10 * ToNumber(SubSeq(text, 1, Len(text) - 1)) + (CharCode(text[Len(text)]) - 48)

\* text.split(':').map(Number): the numbers before and after the first colon.
SplitTime(text) ==
    LET colon == CHOOSE i \in 1..Len(text) : text[i] = ":" /\ \A j \in 1..i - 1 : text[j] # ":"
    IN  [hours |-> ToNumber(SubSeq(text, 1, colon - 1)),
         minutes |-> ToNumber(SubSeq(text, colon + 1, Len(text)))]

getDay(date) == (date \div 1440) % 7

getHours(date) == (date % 1440) \div 60

getMinutes(date) == date % 60

\* getTimeString(date): HH:MM
getTimeString(date) == padStart2(getHours(date)) \o <<":">> \o padStart2(getMinutes(date))

\* The offset from UTC, in minutes, of the time zones used.
ZoneOffset(timezone) == IF timezone = "Asia/Kolkata" THEN 330 ELSE 0

\* new Date(now.toLocaleString('en-US', {timeZone: schedule.timezone || 'UTC'}))
LocalTime(s, instant) ==
    instant + ZoneOffset(IF s.timezone = "" THEN "UTC" ELSE s.timezone)

\* isWithinSchedule with an end bound that excludes endTime itself.
isWithinScheduleEndExclusive(s, instant) ==
    IF s.startTime = <<>> /\ s.endTime = <<>> /\ ~s.hasDaysOfWeek THEN TRUE
    ELSE LET currentTime == getTimeString(LocalTime(s, instant))
         IN  /\ (s.hasDaysOfWeek /\ s.daysOfWeek # {}) => getDay(LocalTime(s, instant)) \in s.daysOfWeek
             /\ s.startTime # <<>> => ~StringLess(currentTime, s.startTime)
             /\ s.endTime # <<>> => StringLess(currentTime, s.endTime)

\* isWithinSchedule(schedule) called at the given instant
isWithinSchedule(s, instant) ==
    IF s.startTime = <<>> /\ s.endTime = <<>> /\ ~s.hasDaysOfWeek THEN TRUE
    ELSE LET localTime == LocalTime(s, instant)
             currentTime == getTimeString(localTime)
         IN  IF s.hasDaysOfWeek /\ s.daysOfWeek # {} /\ getDay(localTime) \notin s.daysOfWeek
             THEN FALSE
             ELSE IF s.startTime # <<>> /\ StringLess(currentTime, s.startTime) THEN FALSE
             ELSE IF s.endTime # <<>> /\ StringLess(s.endTime, currentTime) THEN FALSE
             ELSE TRUE

\* getWaitTimeMs(schedule) called at the given instant
getWaitTimeMs(s, instant) ==
    IF isWithinSchedule(s, instant) THEN 0
    ELSE IF s.startTime # <<>>
    THEN LET localTime == LocalTime(s, instant)
             parts == SplitTime(s.startTime)
             today == (localTime \div 1440) * 1440 + parts.hours * 60 + parts.minutes
             startDate == IF today < localTime THEN today + 1440 ELSE today
         IN  (startDate - instant) * MsPerMinute
    ELSE 0

\* The times of day, in minutes UTC, at which the wall clock is read:
\* 03:30, 09:00, 11:30, 11:31, 17:00, 17:01, 20:00.
ClockTimes == {210, 540, 690, 691, 1020, 1021, 1200}

Instants == {day * 1440 + t : day \in 0..HorizonDays - 1, t \in ClockTimes}

StartTimes == {<<>>, <<"0", "9", ":", "0", "0">>}

EndTimes == {<<>>, <<"1", "7", ":", "0", "0">>}

TimeZones == {"", "Asia/Kolkata"}

WeekDays == {1, 2, 3, 4, 5}

\* The schedules a workflow is given.
Schedules ==
    {NoSchedule} \cup
    [configured : {TRUE}, startTime : StartTimes, endTime : EndTimes, timezone : TimeZones,
     hasDaysOfWeek : {TRUE}, daysOfWeek : {{}, WeekDays}] \cup
    [configured : {TRUE}, startTime : StartTimes, endTime : EndTimes, timezone : TimeZones,
     hasDaysOfWeek : {FALSE}, daysOfWeek : {{}}]

\* 09:00 to 17:00, Monday to Friday, UTC
OfficeHours ==
    [configured |-> TRUE, startTime |-> <<"0", "9", ":", "0", "0">>,
     endTime |-> <<"1", "7", ":", "0", "0">>, timezone |-> "",
     hasDaysOfWeek |-> TRUE, daysOfWeek |-> WeekDays]

NodeSchedules == {NoSchedule, OfficeHours}

\* scheduler.isWithinSchedule(workflow.executionConfig.schedule)
CallIsWithinSchedule ==
    /\ schedule.configured
    /\ scheduleCall' = [asked |-> "isWithinSchedule",
                        within |-> isWithinSchedule(schedule, wallClock), waitMs |-> 0]
    /\ UNCHANGED <<wallClock, schedule, nodeSchedule, simpleRun>>
    /\ UNCHANGED nonScheduleVars

\* scheduler.getWaitTimeMs(workflow.executionConfig.schedule)
CallGetWaitTimeMs ==
    /\ schedule.configured
    /\ scheduleCall' = [asked |-> "getWaitTimeMs",
                        within |-> isWithinSchedule(schedule, wallClock),
                        waitMs |-> getWaitTimeMs(schedule, wallClock)]
    /\ UNCHANGED <<wallClock, schedule, nodeSchedule, simpleRun>>
    /\ UNCHANGED nonScheduleVars

\* executeSimpleWorkflow up to its first await: outside the workflow's
\* schedule it prints the wait time and asks 'Continue anyway?'; otherwise
\* it goes on to the dialogue node.
SimpleWorkflowStarts ==
    /\ simpleRun.phase = "idle"
    /\ IF schedule.configured /\ ~isWithinSchedule(schedule, wallClock)
       THEN simpleRun' = [simpleRun EXCEPT !.phase = "prompt",
                                           !.waitTime = getWaitTimeMs(schedule, wallClock)]
       ELSE simpleRun' = [simpleRun EXCEPT
                !.phase = "dialogue",
                !.dispatchedWithin =
                    isWithinSchedule(IF nodeSchedule.configured THEN nodeSchedule ELSE schedule,
                                     wallClock)]
    /\ UNCHANGED <<wallClock, schedule, nodeSchedule, scheduleCall>>
    /\ UNCHANGED nonScheduleVars

\* The user answers the prompt: proceed runs the dialogue node now, the
\* other answer ends executeSimpleWorkflow ('Execution cancelled').
SimpleWorkflowAnswered(proceed) ==
    /\ simpleRun.phase = "prompt"
    /\ IF proceed
       THEN simpleRun' = [simpleRun EXCEPT
                !.phase = "dialogue",
                !.dispatchedWithin =
                    isWithinSchedule(IF nodeSchedule.configured THEN nodeSchedule ELSE schedule,
                                     wallClock)]
       ELSE simpleRun' = [simpleRun EXCEPT !.phase = "cancelled"]
    /\ UNCHANGED <<wallClock, schedule, nodeSchedule, scheduleCall>>
    /\ UNCHANGED nonScheduleVars

\* dialogueExecutor.executeDialogue returns or throws; either way
\* executeSimpleWorkflow prints 'Workflow execution completed!'.
SimpleWorkflowEnds ==
    /\ simpleRun.phase = "dialogue"
    /\ simpleRun' = [simpleRun EXCEPT !.phase = "completed"]
    /\ UNCHANGED <<wallClock, schedule, nodeSchedule, scheduleCall>>
    /\ UNCHANGED nonScheduleVars

\* Time passes to the next instant at which the clock is read.
TimePasses ==
    /\ \E t \in Instants :
        /\ t > wallClock
        /\ \A u \in Instants : u > wallClock => t <= u
        /\ wallClock' = t
    /\ scheduleCall' = NoScheduleCall
    /\ UNCHANGED <<schedule, nodeSchedule, simpleRun>>
    /\ UNCHANGED nonScheduleVars

ScheduleInit ==
    /\ \E t \in {i \in Instants : i < 7 * 1440}, s \in Schedules, n \in NodeSchedules :
        ScheduleStart(t, s, n)
    /\ TickIdle
    /\ DialogueIdle
    /\ FunctionIdle
    /\ RegisterIdle
    /\ EngineIdle
    /\ ParseIdle
    /\ CycleIdle
    /\ ClientIdle

ScheduleNext ==
    \/ CallIsWithinSchedule
    \/ CallGetWaitTimeMs
    \/ SimpleWorkflowStarts
    \/ \E proceed \in BOOLEAN : SimpleWorkflowAnswered(proceed)
    \/ SimpleWorkflowEnds
    \/ TimePasses

SpecSchedule == ScheduleInit /\ [][ScheduleNext]_vars


\* Minutes after midnight of a time written HH:MM.
MinuteOfDay(text) == SplitTime(text).hours * 60 + SplitTime(text).minutes

\* The local day is one of daysOfWeek (or none are given) and the local
\* time of day lies between startTime and endTime, both included.
WithinAsStated(s, instant) ==
    LET localTime == LocalTime(s, instant)
    IN  /\ (s.hasDaysOfWeek /\ s.daysOfWeek # {}) => getDay(localTime) \in s.daysOfWeek
        /\ s.startTime # <<>> => localTime % 1440 >= MinuteOfDay(s.startTime)
        /\ s.endTime # <<>> => localTime % 1440 <= MinuteOfDay(s.endTime)

\* Saturday 20:00 UTC of the first week.
Saturday2000 == 6 * 1440 + 20 * 60

\* C15: isWithinSchedule returns true exactly when the local day in the
\* schedule's timezone is in daysOfWeek (or daysOfWeek is absent or empty)
\* and the current HH:MM is neither before startTime nor after endTime (each
\* if set, both bounds included); a schedule with none of the three fields
\* is always within, and Saturday 20:00 is outside 09:00-17:00 Mon-Fri.
C15_WithinSchedule ==
    /\ schedule.configured =>
           isWithinSchedule(schedule, wallClock) = WithinAsStated(schedule, wallClock)
    /\ scheduleCall.asked # "none" => scheduleCall.within = WithinAsStated(schedule, wallClock)
    /\ (schedule.startTime = <<>> /\ schedule.endTime = <<>> /\ ~schedule.hasDaysOfWeek) =>
           isWithinSchedule(schedule, wallClock)
    /\ ~isWithinSchedule(OfficeHours, Saturday2000)

\* isWithinSchedule was asked on Saturday 20:00 for 09:00-17:00 Mon-Fri and
\* returned false.
C15_Witness ==
    /\ scheduleCall.asked = "isWithinSchedule"
    /\ schedule = OfficeHours
    /\ wallClock = Saturday2000
    /\ ~scheduleCall.within

\* The next occurrence of startTime, in local minutes: today's if it has not
\* passed, else that of the next day contained in daysOfWeek, else tomorrow's.
NextStartAsStated(s, localTime) ==
    LET today == (localTime \div 1440) * 1440 + MinuteOfDay(s.startTime)
    IN  IF today >= localTime THEN today
        ELSE IF s.hasDaysOfWeek /\ s.daysOfWeek # {}
        THEN today + 1440 * (CHOOSE k \in 1..7 :
                                /\ getDay(localTime + k * 1440) \in s.daysOfWeek
                                /\ \A j \in 1..k - 1 : getDay(localTime + j * 1440) \notin s.daysOfWeek)
        ELSE today + 1440

\* C16: getWaitTimeMs returns 0 when the instant is within the schedule, and
\* otherwise the time until the next occurrence of startTime: today if it
\* has not passed, else the next day contained in daysOfWeek, else tomorrow;
\* for 09:00-17:00 Mon-Fri asked on Saturday 20:00 that is the time until
\* the following Monday 09:00.
C16_WaitUntilNextStart ==
    scheduleCall.asked = "getWaitTimeMs" =>
        /\ scheduleCall.within => scheduleCall.waitMs = 0
        /\ (~scheduleCall.within /\ schedule.startTime # <<>>) =>
               scheduleCall.waitMs =
                   (NextStartAsStated(schedule, LocalTime(schedule, wallClock))
                        - LocalTime(schedule, wallClock)) * MsPerMinute
        /\ (schedule = OfficeHours /\ wallClock = Saturday2000) =>
               scheduleCall.waitMs = (8 * 1440 + 9 * 60 - Saturday2000) * MsPerMinute

\* C17: the dialogue node of a workflow is dispatched only at an instant at
\* which its effective schedule (the node's own, else the workflow's)
\* permits execution; until then it is deferred.
C17_BlockedNodeDeferred ==
    simpleRun.phase \in {"dialogue", "completed"} => simpleRun.dispatchedWithin


\* ------------------------------------------------------------------
\* TemplateResolver (docs/CHALLENGES.md) and DialogueExecutor
\* (dialogue-executor.service.ts).  A string is a sequence of pieces of
\* text; a template is a sequence of segments, each a piece of text or a
\* reference {{key}} or {{key[index]}}.
\* ------------------------------------------------------------------

Text(t) == [ref |-> FALSE, text |-> t, indexed |-> FALSE, index |-> 0]

Ref(key) == [ref |-> TRUE, text |-> key, indexed |-> FALSE, index |-> 0]

RefAt(key, position) == [ref |-> TRUE, text |-> key, indexed |-> TRUE, index |-> position]

Undefined == [defined |-> FALSE, text |-> <<>>]

Defined(t) == [defined |-> TRUE, text |-> t]

\* entries.join(separator); String(array) is entries.join(',')
RECURSIVE Join(_, _)
Join(entries, separator) ==
    IF entries = <<>> THEN <<>>
    ELSE IF Len(entries) = 1 THEN entries[1]
    ELSE entries[1] \o <<separator>> \o Join(Tail(entries), separator)

\* getNestedValue(context, path) for the path of one segment, as String(value):
\* current[key]?.[idx] for an indexed path, current[key] otherwise.
getNestedValue(context, segment) ==
    IF segment.indexed
    THEN IF /\ segment.text \in DOMAIN context.arrays
            /\ segment.index >= 0
            /\ segment.index < Len(context.arrays[segment.text])
         THEN Defined(context.arrays[segment.text][segment.index + 1])
         ELSE Undefined
    ELSE IF segment.text \in DOMAIN context.scalars
         THEN Defined(context.scalars[segment.text])
         ELSE IF segment.text \in DOMAIN context.arrays
              THEN Defined(Join(context.arrays[segment.text], ","))
              ELSE Undefined

\* The path of a reference as written between the braces.
PathText(segment) ==
    IF segment.indexed
    THEN <<segment.text, "[">>
            \o (IF segment.index < 0 THEN <<"-", Digits[1 - segment.index]>>
                ELSE <<Digits[segment.index + 1]>>)
            \o <<"]">>
    ELSE <<segment.text>>

\* The marker of a reference as it stands in the template text.
Marker(segment) == <<"{{">> \o PathText(segment) \o <<"}}">>

\* The text of a template: its literal parts and its markers, in order.
RECURSIVE TemplateText(_)
TemplateText(template) ==
    IF template = <<>> THEN <<>>
    ELSE (IF Head(template).ref THEN Marker(Head(template)) ELSE <<Head(template).text>>)
            \o TemplateText(Tail(template))

IsRef(segment) == segment.ref

\* template.match(/\{\{([^}]+)\}\}/g): the markers of the template, in order
Matches(template) == SelectSeq(template, IsRef)

\* text.indexOf(match): the first place where match stands in text, 0 if none
indexOf(text, match) ==
    LET found == {k \in 1..(Len(text) - Len(match) + 1) :
                    SubSeq(text, k, k + Len(match) - 1) = match}
    IN  IF found = {} THEN 0 ELSE CHOOSE k \in found : \A j \in found : k <= j

\* The replacement patterns of String.prototype.replace: $$ inserts a '$'
\* and $& the matched text.
RECURSIVE expand(_, _)
expand(value, match) ==
    IF value = <<>> THEN <<>>
    ELSE (IF Head(value) = "$$" THEN <<"$">>
          ELSE IF Head(value) = "$&" THEN match
          ELSE <<Head(value)>>) \o expand(Tail(value), match)

\* text.replace(match, value) for a string match: the first occurrence of
\* match is replaced by the expanded value.
replace(text, match, value) ==
    LET at == indexOf(text, match)
    IN  IF at = 0 THEN text
        ELSE SubSeq(text, 1, at - 1) \o expand(value, match)
                \o SubSeq(text, at + Len(match), Len(text))

\* The loop of resolve over the matches: each one is looked up and replaced
\* in the text resolved so far, or the error is thrown at the first match
\* without value.
RECURSIVE resolveFrom(_, _, _)
resolveFrom(matches, context, resolved) ==
    IF matches = <<>> THEN [ok |-> TRUE, value |-> resolved, error |-> <<>>]
    ELSE LET value == getNestedValue(context, Head(matches))
         IN  IF ~value.defined
             THEN [ok |-> FALSE, value |-> <<>>,
                   error |-> <<"Template variable not found: ">> \o PathText(Head(matches))]
             ELSE resolveFrom(Tail(matches), context,
                              replace(resolved, Marker(Head(matches)), value.text))

\* resolve(template, context)
resolve(template, context) ==
    resolveFrom(Matches(template), context, TemplateText(template))

\* workflowContext: the inputs of the run
WorkflowContext == [topic |-> <<"AI">>]

\* getSpeakerName(speakerRef): the part before the first '-', in upper case
getSpeakerName(speakerRef) ==
    IF speakerRef = "ceo-agent" THEN "CEO"
    ELSE IF speakerRef = "cto-agent" THEN "CTO"
    ELSE IF speakerRef = "cmo-agent" THEN "CMO"
    ELSE IF speakerRef = "summarizer-agent" THEN "SUMMARIZER"
    ELSE "UNKNOWN"

\* turnContext of executeTurn
TurnContext(context) ==
    [scalars |-> WorkflowContext,
     arrays |-> [conversationHistory |-> context.conversationHistory,
                 previousTurns |-> [k \in 1..Len(context.turns) |-> <<"[object Object]">>]]]

\* conditionContext of shouldEndDialogue
ConditionContext(context) ==
    [scalars |-> [topic |-> WorkflowContext.topic,
                  turnCount |-> <<Digits[Len(context.turns) + 1]>>,
                  lastResponse |-> IF context.turns = <<>> THEN <<"">>
                                   ELSE <<context.turns[Len(context.turns)].response>>],
     arrays |-> <<>>]

\* shouldEndDialogue that never ends the dialogue.
shouldEndDialogueNever(endCondition, context) == FALSE

\* shouldEndDialogue(endCondition, context, workflowContext); an error of
\* resolve is caught and gives false.
shouldEndDialogue(endCondition, context) ==
    LET r == resolve(endCondition, ConditionContext(context))
    IN  r.ok /\ r.value = <<"true">>

\* dialogue.endCondition && shouldEndDialogue(...)
EndConditionMet == dialogue.endCondition # <<>> /\ shouldEndDialogue(dialogue.endCondition, dialogueContext)

\* The loop bound that leaves maxTurns out.
LoopBoundWithoutMaxTurns ==
    IF dialogue.mode = "sequential" THEN Len(dialogue.turns) ELSE MaxMaxTurns + 1

\* maxTurns = dialogue.maxTurns || dialogue.turns.length, and with it the
\* bound of the mode's loop.
LoopBound ==
    LET maxTurns == IF dialogue.maxTurns # 0 THEN dialogue.maxTurns ELSE Len(dialogue.turns)
    IN  IF dialogue.mode = "sequential"
        THEN (IF Len(dialogue.turns) < maxTurns THEN Len(dialogue.turns) ELSE maxTurns)
        ELSE maxTurns

\* selectNextSpeaker that looks at the speaker of the last turn only.
selectNextSpeakerAfterLastTurn(participants, context) ==
    LET n == Len(context.turns)
        recentSpeakers == {context.turns[k].speaker : k \in (IF n > 1 THEN n ELSE 1)..n}
        fresh == {k \in 1..Len(participants) : participants[k] \notin recentSpeakers}
    IN  IF fresh # {} THEN participants[CHOOSE k \in fresh : \A j \in fresh : k <= j]
        ELSE IF participants # <<>> THEN participants[1] ELSE ""

\* selectNextSpeaker(participants, context, workflowContext)
selectNextSpeaker(participants, context) ==
    LET n == Len(context.turns)
        recentSpeakers == {context.turns[k].speaker : k \in (IF n > 2 THEN n - 1 ELSE 1)..n}
        fresh == {k \in 1..Len(participants) : participants[k] \notin recentSpeakers}
    IN  IF fresh # {} THEN participants[CHOOSE k \in fresh : \A j \in fresh : k <= j]
        ELSE IF participants # <<>> THEN participants[1] ELSE ""

\* generateDynamicPrompt(speaker, context, workflowContext)
generateDynamicPrompt(context) ==
    LET n == Len(context.conversationHistory)
        recentHistory ==
            Join(SubSeq(context.conversationHistory, IF n > 3 THEN n - 2 ELSE 1, n), "\n")
    IN  <<Text("Based on the conversation so far:\n")>>
            \o [k \in 1..Len(recentHistory) |-> Text(recentHistory[k])]
            \o <<Text("\n\nPlease provide your perspective on: "), Text(WorkflowContext.topic[1])>>

\* The turn of the current iteration when round-robin does not wrap around:
\* past the end of the list the last participant goes on speaking.
CurrentTurnWithoutWrap ==
    IF dialogue.mode = "sequential" THEN dialogue.turns[turnLoop.i + 1]
    ELSE IF dialogue.mode = "round-robin"
    THEN [speaker |-> IF dialogue.participants = <<>> THEN ""
                      ELSE IF turnLoop.i < Len(dialogue.participants)
                      THEN dialogue.participants[turnLoop.i + 1]
                      ELSE dialogue.participants[Len(dialogue.participants)],
          prompt |-> generateDynamicPrompt(dialogueContext)]
    ELSE [speaker |-> selectNextSpeaker(dialogue.participants, dialogueContext),
          prompt |-> generateDynamicPrompt(dialogueContext)]

\* The turn of the current iteration: the predefined one, or the one
\* composed for the next speaker (speaker "" if there is none).
CurrentTurn ==
    IF dialogue.mode = "sequential" THEN dialogue.turns[turnLoop.i + 1]
    ELSE IF dialogue.mode = "round-robin"
    THEN [speaker |-> IF dialogue.participants = <<>> THEN ""
                      ELSE dialogue.participants[(turnLoop.i % Len(dialogue.participants)) + 1],
          prompt |-> generateDynamicPrompt(dialogueContext)]
    ELSE [speaker |-> selectNextSpeaker(dialogue.participants, dialogueContext),
          prompt |-> generateDynamicPrompt(dialogueContext)]


Speakers == {"ceo-agent", "cto-agent"}

\* The participants lists of a dialogue: two agents, or four.
ParticipantLists ==
    {<<"ceo-agent", "cto-agent">>,
     <<"ceo-agent", "cto-agent", "cmo-agent", "summarizer-agent">>}

\* The prompts of predefined turns.
Prompts ==
    {<<Text("Hello")>>,
     <<Text("CEO said: "), RefAt("conversationHistory", -1)>>,
     <<Text("First: "), RefAt("conversationHistory", 0)>>}

PredefinedTurns == [speaker : Speakers, prompt : Prompts]

TurnSeqs == UNION {[1..n -> PredefinedTurns] : n \in 0..MaxPredefinedTurns}

\* The predefined turns of a dialogue of a mode: outside sequential mode
\* only their number is read (the default of maxTurns).
TurnSeqsOf(mode) ==
    IF mode = "sequential" THEN TurnSeqs
    ELSE {[k \in 1..n |-> [speaker |-> "ceo-agent", prompt |-> <<Text("Hello")>>]] :
            n \in 0..MaxPredefinedTurns}

\* The end conditions: none, 'true', '{{lastResponse}}', '{{turnCount >= 2}}'.
EndConditions ==
    {<<>>, <<Text("true")>>, <<Ref("lastResponse")>>, <<Ref("turnCount >= 2")>>}

\* What an agent answers.
Responses == {"yes", "true"}

DialogueModes == {"sequential", "round-robin", "dynamic"}

\* const agent = context.participants.get(turn.speaker)
AgentFound(speaker) ==
    /\ speaker \in agents
    /\ \E k \in 1..Len(dialogue.participants) : dialogue.participants[k] = speaker

\* executeDialogue enters the loop of its mode.
ExecuteDialogue ==
    /\ turnLoop.phase = "idle"
    /\ turnLoop' = [turnLoop EXCEPT !.phase = "loop"]
    /\ UNCHANGED <<dialogue, agents, dialogueContext, nodeRun>>
    /\ UNCHANGED nonDialogueVars

\* The loop is left: its bound is reached, the end condition is met, or
\* no next speaker is selected; executeDialogue returns the NodeRun.
DialogueEnds ==
    /\ turnLoop.phase = "loop"
    /\ \/ turnLoop.i >= LoopBound
       \/ EndConditionMet
       \/ dialogue.mode = "dynamic" /\ CurrentTurn.speaker = ""
    /\ turnLoop' = [turnLoop EXCEPT !.phase = "returned"]
    /\ nodeRun' = [status |-> "completed", turns |-> dialogueContext.turns, error |-> <<>>]
    /\ UNCHANGED <<dialogue, agents, dialogueContext>>
    /\ UNCHANGED nonDialogueVars

\* An iteration runs a turn: the loop has not ended.
TurnDue ==
    /\ turnLoop.phase = "loop"
    /\ turnLoop.i < LoopBound
    /\ ~EndConditionMet
    /\ ~(dialogue.mode = "dynamic" /\ CurrentTurn.speaker = "")

\* The speaker is no participant with a registered agent (or there is no
\* speaker): the iteration records nothing.
TurnSkipped ==
    /\ TurnDue
    /\ ~AgentFound(CurrentTurn.speaker)
    /\ turnLoop' = [turnLoop EXCEPT !.i = @ + 1]
    /\ UNCHANGED <<dialogue, agents, dialogueContext, nodeRun>>
    /\ UNCHANGED nonDialogueVars

\* resolve throws on the turn's prompt: executeDialogue rejects.
TurnPromptFails ==
    /\ TurnDue
    /\ AgentFound(CurrentTurn.speaker)
    /\ ~resolve(CurrentTurn.prompt, TurnContext(dialogueContext)).ok
    /\ turnLoop' = [turnLoop EXCEPT !.phase = "returned"]
    /\ nodeRun' = [status |-> "thrown", turns |-> dialogueContext.turns,
                   error |-> resolve(CurrentTurn.prompt, TurnContext(dialogueContext)).error]
    /\ UNCHANGED <<dialogue, agents, dialogueContext>>
    /\ UNCHANGED nonDialogueVars

\* The prompt is resolved and the agent is called with it.
TurnInvokesAgent ==
    /\ TurnDue
    /\ AgentFound(CurrentTurn.speaker)
    /\ resolve(CurrentTurn.prompt, TurnContext(dialogueContext)).ok
    /\ turnLoop' = [turnLoop EXCEPT
            !.phase = "calling",
            !.calls = @ + 1,
            !.turn = [speaker |-> CurrentTurn.speaker,
                      prompt |-> resolve(CurrentTurn.prompt, TurnContext(dialogueContext)).value]]
    /\ UNCHANGED <<dialogue, agents, dialogueContext, nodeRun>>
    /\ UNCHANGED nonDialogueVars

\* callAgent returns and the turn result is pushed, the history is not.
AgentRespondsUnrecorded(reply) ==
    /\ turnLoop.phase = "calling"
    /\ dialogueContext' =
        [dialogueContext EXCEPT
            !.turns = Append(@, [speaker |-> turnLoop.turn.speaker,
                                 prompt |-> turnLoop.turn.prompt, response |-> reply])]
    /\ turnLoop' = [turnLoop EXCEPT !.phase = "loop", !.i = @ + 1, !.turn = NoTurn]
    /\ UNCHANGED <<dialogue, agents, nodeRun>>
    /\ UNCHANGED nonDialogueVars

\* callAgent returns: the turn result is pushed and the history extended.
AgentResponds(reply) ==
    /\ turnLoop.phase = "calling"
    /\ dialogueContext' =
        [turns |-> Append(dialogueContext.turns,
                          [speaker |-> turnLoop.turn.speaker, prompt |-> turnLoop.turn.prompt,
                           response |-> reply]),
         conversationHistory |->
            Append(dialogueContext.conversationHistory,
                   <<getSpeakerName(turnLoop.turn.speaker), ": ", reply>>)]
    /\ turnLoop' = [turnLoop EXCEPT !.phase = "loop", !.i = @ + 1, !.turn = NoTurn]
    /\ UNCHANGED <<dialogue, agents, nodeRun>>
    /\ UNCHANGED nonDialogueVars

\* A failed call that is swallowed: the loop goes on with the next turn.
AgentCallFailsSwallowed ==
    /\ turnLoop.phase = "calling"
    /\ turnLoop' = [turnLoop EXCEPT !.phase = "loop", !.i = @ + 1, !.turn = NoTurn]
    /\ UNCHANGED <<dialogue, agents, dialogueContext, nodeRun>>
    /\ UNCHANGED nonDialogueVars

\* callAgent throws: executeTurn rethrows and executeDialogue rejects.
AgentCallFails ==
    /\ turnLoop.phase = "calling"
    /\ turnLoop' = [turnLoop EXCEPT !.phase = "returned", !.turn = NoTurn]
    /\ nodeRun' = [status |-> "thrown", turns |-> dialogueContext.turns,
                   error |-> <<"agent call failed">>]
    /\ UNCHANGED <<dialogue, agents, dialogueContext>>
    /\ UNCHANGED nonDialogueVars

DialogueInit ==
    /\ \E mode \in DialogueModes, maxTurns \in 0..MaxMaxTurns,
          endCondition \in EndConditions, participants \in ParticipantLists :
       \E turns \in TurnSeqsOf(mode), registered \in {Range(participants), {"ceo-agent"}} :
        DialogueStart([mode |-> mode, participants |-> participants,
                       turns |-> turns, maxTurns |-> maxTurns,
                       endCondition |-> endCondition], registered)
    /\ TickIdle
    /\ ScheduleIdle
    /\ FunctionIdle
    /\ RegisterIdle
    /\ EngineIdle
    /\ ParseIdle
    /\ CycleIdle
    /\ ClientIdle

DialogueNext ==
    \/ ExecuteDialogue
    \/ DialogueEnds
    \/ TurnSkipped
    \/ TurnPromptFails
    \/ TurnInvokesAgent
    \/ \E reply \in Responses : AgentResponds(reply)
    \/ AgentCallFails

SpecDialogue == DialogueInit /\ [][DialogueNext]_vars


\* The response of the last recorded turn.
LastResponse == dialogueContext.turns[Len(dialogueContext.turns)].response

\* The text holds the piece.
Contains(text, piece) == \E k \in 1..Len(text) : text[k] = piece

\* The template refers to {{conversationHistory[-1]}}.
RefersToLastEntry(template) ==
    \E k \in 1..Len(template) : template[k] = RefAt("conversationHistory", -1)

\* C18: the turns of a dialogue are serialized, each agent call starting
\* after the result of the turn before it is appended; when a turn's prompt
\* is resolved the last conversationHistory entry holds the response of the
\* turn before it, and a prompt containing {{conversationHistory[-1]}}
\* resolves to text containing that response verbatim.
C18_TurnsSerialized ==
    /\ [](/\ turnLoop.calls \in {Len(dialogueContext.turns), Len(dialogueContext.turns) + 1}
          /\ turnLoop.phase = "loop" => turnLoop.calls = Len(dialogueContext.turns)
          /\ dialogueContext.turns # <<>> =>
                Contains(dialogueContext.conversationHistory[Len(dialogueContext.turns)],
                         LastResponse))
    /\ [][(/\ TurnDue
           /\ AgentFound(CurrentTurn.speaker)
           /\ dialogueContext.turns # <<>>
           /\ RefersToLastEntry(CurrentTurn.prompt)
           /\ turnLoop' # turnLoop) =>
              /\ turnLoop'.phase = "calling"
              /\ Contains(turnLoop'.turn.prompt, LastResponse)]_vars

\* dialogue.maxTurns, or the number of predefined turns when it is not given.
MaxTurnsOrDefault == IF dialogue.maxTurns # 0 THEN dialogue.maxTurns ELSE Len(dialogue.turns)

\* C19: a dialogue never records more than maxTurns turns, and in
\* sequential mode never more than its predefined turns; maxTurns not given
\* stands for the number of predefined turns.
C19_TurnsBounded ==
    /\ Len(dialogueContext.turns) <= MaxTurnsOrDefault
    /\ Len(nodeRun.turns) <= MaxTurnsOrDefault
    /\ dialogue.mode = "sequential" => Len(dialogueContext.turns) <= Len(dialogue.turns)
    /\ Len(dialogueContext.conversationHistory) = Len(dialogueContext.turns)

\* A sequential dialogue of two predefined turns and maxTurns 1 completed
\* with one turn.
C19_Witness ==
    /\ nodeRun.status = "completed"
    /\ dialogue.mode = "sequential"
    /\ Len(dialogue.turns) = 2
    /\ dialogue.maxTurns = 1
    /\ dialogue.endCondition = <<>>
    /\ Len(nodeRun.turns) = 1

\* The end condition is configured and resolves to the string 'true'
\* against turnCount and lastResponse of the turns recorded so far.
EndResolvesTrue ==
    /\ dialogue.endCondition # <<>>
    /\ resolve(dialogue.endCondition, ConditionContext(dialogueContext)).ok
    /\ resolve(dialogue.endCondition, ConditionContext(dialogueContext)).value = <<"true">>

\* C20: in every mode, where a turn would come next and the configured
\* endCondition resolves to 'true' against turnCount and lastResponse, no
\* further turn is executed: the dialogue completes with the turns recorded
\* so far.
C20_EndConditionStops ==
    /\ [][(turnLoop.phase = "loop" /\ EndResolvesTrue /\ turnLoop' # turnLoop) =>
              /\ turnLoop'.phase = "returned"
              /\ nodeRun'.status = "completed"
              /\ nodeRun'.turns = dialogueContext.turns
              /\ dialogueContext' = dialogueContext]_vars
    /\ [](turnLoop.phase = "calling" =>
              ~(/\ dialogue.endCondition # <<>>
                /\ dialogueContext.turns # <<>>
                /\ LastResponse = "true"
                /\ dialogue.endCondition = <<Ref("lastResponse")>>))

\* A round-robin dialogue with room for three turns completed after one
\* turn, whose response made '{{lastResponse}}' resolve to 'true'.
C20_Witness ==
    /\ nodeRun.status = "completed"
    /\ dialogue.mode = "round-robin"
    /\ dialogue.maxTurns = 3
    /\ dialogue.endCondition = <<Ref("lastResponse")>>
    /\ Len(nodeRun.turns) = 1
    /\ nodeRun.turns[1].response = "true"


\* C21: a participant whose agent reference cannot be resolved never makes
\* the dialogue fail and is skipped for speaker selection: in round-robin
\* and dynamic mode the speaker chosen for a turn always has a resolved
\* agent.
C21_UnresolvedParticipantSkipped ==
    /\ [][(TurnDue /\ ~AgentFound(CurrentTurn.speaker) /\ turnLoop' # turnLoop) =>
              nodeRun'.status # "thrown"]_vars
    /\ [](TurnDue /\ dialogue.mode # "sequential" => CurrentTurn.speaker \in agents)

\* C22: a dialogue ends in exactly one of completed or failed (executeDialogue
\* returns its NodeRun or rejects); it completes only if every agent call it
\* made produced a turn and every prompt resolved; when a call or a prompt
\* resolution fails, the dialogue ends failed at that step, and nothing
\* happens after the end.
C22_CompletedOrFailed ==
    /\ [](/\ (turnLoop.phase = "returned") = (nodeRun.status \in {"completed", "thrown"})
          /\ turnLoop.phase # "returned" => nodeRun.status = "none"
          /\ nodeRun.status = "completed" =>
                /\ turnLoop.calls = Len(nodeRun.turns)
                /\ nodeRun.error = <<>>
          /\ nodeRun.status = "thrown" => nodeRun.error # <<>>)
    /\ [][(turnLoop.phase = "calling" /\ dialogueContext' = dialogueContext
                /\ turnLoop' # turnLoop) =>
              nodeRun'.status = "thrown"]_vars
    /\ [][(/\ TurnDue
           /\ AgentFound(CurrentTurn.speaker)
           /\ ~resolve(CurrentTurn.prompt, TurnContext(dialogueContext)).ok
           /\ turnLoop' # turnLoop) =>
              nodeRun'.status = "thrown" /\ turnLoop'.calls = turnLoop.calls]_vars
    /\ [][turnLoop.phase = "returned" => UNCHANGED dialogueVars]_vars

\* A dialogue whose first call succeeded and whose second call failed ended
\* failed with one turn recorded.
C22_Witness ==
    /\ nodeRun.status = "thrown"
    /\ nodeRun.error = <<"agent call failed">>
    /\ turnLoop.calls = 2
    /\ Len(dialogueContext.turns) = 1

\* ---------------------------------------------------------------------
\* Functions called on their own: the template resolvers, the validators
\* ---------------------------------------------------------------------

\* All sequences over a set with at most n entries.
Tuples(S, n) == UNION {[1..k -> S] : k \in 0..n}

\* path.split('.') for the paths that occur in node inputs
PathParts(path) ==
    CASE path = "inputs.topic" -> <<"inputs", "topic">>
      [] path = "inputs.missing" -> <<"inputs", "missing">>
      [] path = "A.text" -> <<"A", "text">>
      [] path = "B.text" -> <<"B", "text">>
      [] OTHER -> <<path>>

\* The loop of resolveTemplateString over the matches: a match is replaced
\* in the text resolved so far when its input key or its node's output
\* exists, and is left as it stands otherwise.
RECURSIVE resolveTemplateStringFrom(_, _, _, _)
resolveTemplateStringFrom(matches, workflowInputs, previousResults, resolvedValue) ==
    IF matches = <<>> THEN resolvedValue
    ELSE LET parts == PathParts(Head(matches).text)
             known == IF parts[1] = "inputs" THEN parts[2] \in DOMAIN workflowInputs
                      ELSE parts[1] \in DOMAIN previousResults
             valueStr == IF parts[1] = "inputs" THEN workflowInputs[parts[2]]
                         ELSE previousResults[parts[1]]
         IN  resolveTemplateStringFrom(
                 Tail(matches), workflowInputs, previousResults,
                 IF known THEN replace(resolvedValue, Marker(Head(matches)), valueStr)
                 ELSE resolvedValue)

\* resolveTemplateString(template, workflowInputs, previousResults)
resolveTemplateString(template, workflowInputs, previousResults) ==
    resolveTemplateStringFrom(Matches(template), workflowInputs, previousResults,
                              TemplateText(template))

\* resolveInputs(node.inputs, ...) for a node whose inputs are one prompt: a
\* string holding a marker goes through resolveTemplateString.
resolveInputs(nodeInputs, workflowInputs, previousResults) ==
    IF \E k \in 1..Len(nodeInputs) : nodeInputs[k].ref
    THEN resolveTemplateString(nodeInputs, workflowInputs, previousResults)
    ELSE [k \in 1..Len(nodeInputs) |-> nodeInputs[k].text]

\* checkCircular(template) with an empty refs set: the error of the first
\* path met a second time.
RECURSIVE checkCircularFrom(_, _)
checkCircularFrom(template, refs) ==
    IF template = <<>> THEN [ok |-> TRUE, error |-> <<>>]
    ELSE LET segment == Head(template)
         IN  IF ~segment.ref THEN checkCircularFrom(Tail(template), refs)
             ELSE IF PathText(segment) \in refs
             THEN [ok |-> FALSE,
                   error |-> <<"Circular template reference: ">> \o PathText(segment)]
             ELSE checkCircularFrom(Tail(template), refs \cup {PathText(segment)})

checkCircular(template) == checkCircularFrom(template, {})

Entries == {<<"x">>, <<"y">>, <<"z">>}

\* The values of name: plain text, text that reads like the marker of
\* topic, and text with a '$' pattern.
NameValues == {<<"v">>, <<"{{", "topic", "}}">>, <<"$&">>, <<"US", "$$", "5">>}

\* The contexts a template is resolved in: a name, a topic and a history.
Contexts ==
    {[scalars |-> [name |-> v, topic |-> <<"AI">>], arrays |-> [history |-> h]] :
        v \in NameValues, h \in Tuples(Entries, MaxHistory)}

\* The templates handed to the resolver of the dialogue prompts.
Templates ==
    {<<RefAt("history", k)>> : k \in (0 - MaxHistory)..(MaxHistory - 1)}
        \cup {<<Text("Hi "), Ref("name")>>,
              <<Text("Hi "), Ref("missing"), Ref("name")>>,
              <<Ref("name"), Text(" and "), Ref("name")>>,
              <<Ref("name"), Text(" on "), Ref("topic")>>,
              <<Ref("name"), Text(" has "), Ref("history")>>,
              <<Text("plain")>>}

\* The inputs of a node of the engine.
NodeInputs ==
    {<<Text("Discuss "), Ref("inputs.topic")>>,
     <<Text("Discuss "), Ref("inputs.missing")>>,
     <<Ref("A.text"), Text(" then "), Ref("B.text")>>,
     <<Ref("inputs.topic"), Text(" and "), Ref("inputs.topic")>>,
     <<Ref("inputs.topic"), Text(" then "), Ref("A.text")>>,
     <<Text("plain")>>}

WorkflowInputs == {<<>>, [topic |-> <<"AI">>], [topic |-> <<"{{", "A.text", "}}">>]}

\* The outputs of the nodes run before, by node id.
PreviousResults ==
    {<<>>, [A |-> <<"out of A">>], [A |-> <<"out of A">>, B |-> <<"out of B">>]}

\* resolver.resolve(template, context) is called.
CallResolve ==
    /\ argument.op = "resolve" /\ ~returned.done
    /\ returned' = [done |-> TRUE,
                    result |-> resolve(argument.input.template, argument.input.context)]
    /\ UNCHANGED <<argument, nonFunctionVars>>

\* executeNode(node, workflowInputs, previousResults) for a node of a known
\* agent: the inputs are resolved and posted to the agent's endpoint.
CallExecuteNode ==
    /\ argument.op = "executeNode" /\ ~returned.done
    /\ returned' = [done |-> TRUE, threw |-> FALSE,
                    posted |-> resolveInputs(argument.input.inputs,
                                             argument.input.workflowInputs,
                                             argument.input.previousResults)]
    /\ UNCHANGED <<argument, nonFunctionVars>>

\* checkCircular(template) is called with refs empty.
CallCheckCircular ==
    /\ argument.op = "checkCircular" /\ ~returned.done
    /\ returned' = [done |-> TRUE, result |-> checkCircular(argument.input.template)]
    /\ UNCHANGED <<argument, nonFunctionVars>>

\* timeRegex.test(text) for /^([0-1][0-9]|2[0-3]):[0-5][0-9]$/
timeRegexTest(text) ==
    LET digit(c) == \E i \in 1..10 : Digits[i] = c
        upTo(c, n) == \E i \in 1..n + 1 : Digits[i] = c
    IN  /\ Len(text) = 5
        /\ \/ upTo(text[1], 1) /\ digit(text[2])
           \/ text[1] = "2" /\ upTo(text[2], 3)
        /\ text[3] = ":"
        /\ upTo(text[4], 5)
        /\ digit(text[5])

\* A day value: a whole number, or that number and a half.
Day(whole, half) == [whole |-> whole, half |-> half]

\* day < 0 || day > 6 || !Number.isInteger(day)
InvalidDay(day) ==
    \/ day.whole < 0
    \/ day.whole > 6 \/ (day.whole = 6 /\ day.half)
    \/ day.half

\* The errors pushed for the entries of daysOfWeek, in the order of the array.
RECURSIVE dayErrors(_)
dayErrors(days) ==
    IF days = <<>> THEN <<>>
    ELSE (IF InvalidDay(Head(days)) THEN <<<<"Invalid day of week", Head(days)>>>> ELSE <<>>)
            \o dayErrors(Tail(days))

\* validateSchedule(schedule) that returns at the first error it finds
validateScheduleFailFast(s) ==
    LET errors ==
            IF s.startTime # <<>> /\ ~timeRegexTest(s.startTime)
            THEN <<<<"Invalid startTime format", s.startTime>>>>
            ELSE IF s.endTime # <<>> /\ ~timeRegexTest(s.endTime)
            THEN <<<<"Invalid endTime format", s.endTime>>>>
            ELSE IF s.startTime # <<>> /\ s.endTime # <<>> /\ ~StringLess(s.startTime, s.endTime)
            THEN <<<<"startTime must be before endTime">>>>
            ELSE IF s.hasDaysOfWeek /\ dayErrors(s.daysOfWeek) # <<>>
            THEN <<Head(dayErrors(s.daysOfWeek))>>
            ELSE <<>>
    IN  [valid |-> errors = <<>>, errors |-> errors]

\* validateSchedule(schedule): a time that is not set (absent or empty) is
\* not looked at.
validateSchedule(s) ==
    LET errors ==
            (IF s.startTime # <<>> /\ ~timeRegexTest(s.startTime)
             THEN <<<<"Invalid startTime format", s.startTime>>>> ELSE <<>>)
         \o (IF s.endTime # <<>> /\ ~timeRegexTest(s.endTime)
             THEN <<<<"Invalid endTime format", s.endTime>>>> ELSE <<>>)
         \o (IF s.startTime # <<>> /\ s.endTime # <<>> /\ ~StringLess(s.startTime, s.endTime)
             THEN <<<<"startTime must be before endTime">>>> ELSE <<>>)
         \o (IF s.hasDaysOfWeek THEN dayErrors(s.daysOfWeek) ELSE <<>>)
    IN  [valid |-> Len(errors) = 0, errors |-> errors]

\* A field of a tick configuration: <<>> when undefined, <<n>> when n.
PositiveError(field, name) ==
    IF field # <<>> /\ field[1] <= 0 THEN <<name \o " must be positive">> ELSE <<>>

\* !field: the field is undefined or 0
Falsy(field) == field = <<>> \/ field[1] = 0

\* validateTickConfig(tickConfig): nothing is looked at unless enabled.
validateTickConfig(c) ==
    LET errors ==
            IF c.enabled
            THEN (IF Falsy(c.intervalMs) /\ Falsy(c.intervalSeconds) /\ Falsy(c.intervalMinutes)
                  THEN <<"Tick config must specify at least one interval">> ELSE <<>>)
                 \o PositiveError(c.intervalMs, "intervalMs")
                 \o PositiveError(c.intervalSeconds, "intervalSeconds")
                 \o PositiveError(c.intervalMinutes, "intervalMinutes")
                 \o PositiveError(c.maxTicksPerRound, "maxTicksPerRound")
            ELSE <<>>
    IN  [valid |-> Len(errors) = 0, errors |-> errors]

\* The time strings handed to validateSchedule: none, well formed, malformed.
RawTimes ==
    {<<>>,
     <<"0", "9", ":", "0", "0">>, <<"1", "7", ":", "0", "0">>,
     <<"9", ":", "0", "0">>, <<"2", "5", ":", "0", "0">>}

DayValues == {Day(whole, half) : whole \in {0 - 1, 0, 6, 7}, half \in BOOLEAN}

\* The values of a field of a tick configuration.
FieldValues == {<<>>, <<0 - 1>>, <<0>>, <<5>>}

\* scheduler.validateSchedule(schedule) is called.
CallValidateSchedule ==
    /\ argument.op = "validateSchedule" /\ ~returned.done
    /\ returned' = [done |-> TRUE, threw |-> FALSE, result |-> validateSchedule(argument.input)]
    /\ UNCHANGED <<argument, nonFunctionVars>>

\* tickManager.validateTickConfig(tickConfig) is called.
CallValidateTickConfig ==
    /\ argument.op = "validateTickConfig" /\ ~returned.done
    /\ returned' = [done |-> TRUE, threw |-> FALSE, result |-> validateTickConfig(argument.input)]
    /\ UNCHANGED <<argument, nonFunctionVars>>

FunctionInit ==
    /\ \/ \E template \in Templates, context \in Contexts :
              FunctionStart("resolve", [template |-> template, context |-> context])
       \/ \E inputs \in NodeInputs, workflowInputs \in WorkflowInputs,
             previousResults \in PreviousResults :
              FunctionStart("executeNode",
                            [inputs |-> inputs, workflowInputs |-> workflowInputs,
                             previousResults |-> previousResults])
       \/ \E template \in Templates \cup NodeInputs :
              FunctionStart("checkCircular", [template |-> template])
       \/ \E startTime \in RawTimes, endTime \in RawTimes, hasDaysOfWeek \in BOOLEAN :
          \E daysOfWeek \in (IF hasDaysOfWeek THEN Tuples(DayValues, MaxDays) ELSE {<<>>}) :
              FunctionStart("validateSchedule",
                            [startTime |-> startTime, endTime |-> endTime,
                             hasDaysOfWeek |-> hasDaysOfWeek, daysOfWeek |-> daysOfWeek])
       \/ \E enabled \in BOOLEAN, intervalMs \in FieldValues, intervalSeconds \in FieldValues,
             intervalMinutes \in FieldValues, maxTicksPerRound \in FieldValues :
              FunctionStart("validateTickConfig",
                            [enabled |-> enabled, intervalMs |-> intervalMs,
                             intervalSeconds |-> intervalSeconds,
                             intervalMinutes |-> intervalMinutes,
                             maxTicksPerRound |-> maxTicksPerRound])
    /\ TickIdle
    /\ ScheduleIdle
    /\ DialogueIdle
    /\ RegisterIdle
    /\ EngineIdle
    /\ ParseIdle
    /\ CycleIdle
    /\ ClientIdle

FunctionNext ==
    \/ CallResolve
    \/ CallExecuteNode
    \/ CallCheckCircular
    \/ CallValidateSchedule
    \/ CallValidateTickConfig

SpecFunctions == FunctionInit /\ [][FunctionNext]_vars

\* The template, when it is one indexed reference into history.
IndexedReference ==
    /\ argument.op = "resolve"
    /\ Len(argument.input.template) = 1
    /\ argument.input.template[1].indexed

\* C23: a negative index counts from the end of the sequence: {{history[-k]}}
\* resolves to the k-th entry from the end, so with history = [x, y, z] the
\* template {{history[-1]}} resolves to z.
C23_NegativeIndexFromEnd ==
    LET history == argument.input.context.arrays.history
        k == 0 - argument.input.template[1].index
    IN  (IndexedReference /\ returned.done /\ k >= 1 /\ k <= Len(history)) =>
            /\ returned.result.ok
            /\ returned.result.value = history[Len(history) - k + 1]

\* The references of a template whose path is absent from the context.
AbsentFromContext(template, context) ==
    {k \in 1..Len(template) :
        template[k].ref /\ ~getNestedValue(context, template[k]).defined}

\* The references of a node's inputs whose path names neither an input of
\* the run nor the output of a node run before.
AbsentFromRun(input) ==
    {k \in 1..Len(input.inputs) :
        /\ input.inputs[k].ref
        /\ LET parts == PathParts(input.inputs[k].text)
           IN  IF parts[1] = "inputs"
               THEN parts[2] \notin DOMAIN input.workflowInputs
               ELSE parts[1] \notin DOMAIN input.previousResults}

\* C24: a dialogue prompt or a node input that refers to an absent path
\* makes the resolution fail with an error naming that path; the node fails
\* and the agent is not invoked with the unresolved text.
C24_AbsentPathFails ==
    /\ (argument.op = "resolve" /\ returned.done
          /\ AbsentFromContext(argument.input.template, argument.input.context) # {}) =>
            /\ ~returned.result.ok
            /\ \E k \in AbsentFromContext(argument.input.template, argument.input.context) :
                   returned.result.error
                       = <<"Template variable not found: ">> \o PathText(argument.input.template[k])
    /\ (argument.op = "executeNode" /\ returned.done /\ AbsentFromRun(argument.input) # {}) =>
            returned.threw

\* The paths that a template refers to more than once.
RepeatedPaths(template) ==
    {PathText(template[k]) : k \in {n \in 1..Len(template) :
        /\ template[n].ref
        /\ \E m \in 1..n - 1 : template[m].ref /\ PathText(template[m]) = PathText(template[n])}}

\* C25: resolving a template in which a reference path occurs a second time
\* within the pass fails with a circular-reference error naming the path,
\* and nothing is substituted.
C25_RepeatedPathFails ==
    /\ (argument.op = "executeNode" /\ returned.done
          /\ RepeatedPaths(argument.input.inputs) # {}) =>
            returned.threw
    /\ (argument.op = "resolve" /\ returned.done
          /\ RepeatedPaths(argument.input.template) # {}) =>
            /\ ~returned.result.ok
            /\ \E path \in RepeatedPaths(argument.input.template) :
                   returned.result.error = <<"Circular template reference: ">> \o path

\* A time of the form HH:MM: two digits up to 23, a colon, two digits up to 59.
WellFormedTime(text) ==
    /\ Len(text) = 5
    /\ text[3] = ":"
    /\ \A k \in {1, 2, 4, 5} : \E i \in 1..10 : Digits[i] = text[k]
    /\ ToNumber(SubSeq(text, 1, 2)) <= 23
    /\ ToNumber(SubSeq(text, 4, 5)) <= 59

\* How often an entry occurs in a sequence.
Occurrences(entry, entries) == Cardinality({k \in 1..Len(entries) : entries[k] = entry})

\* C27: validateSchedule reports an error for each of startTime and endTime
\* that is set and not of the form HH:MM, an error when startTime is not
\* before endTime, and one error for each entry of daysOfWeek that is not an
\* integer in 0..6; it returns all of them in one list, never throws, and
\* valid is true exactly when the list is empty.
C27_ValidateSchedule ==
    (argument.op = "validateSchedule" /\ returned.done) =>
        LET s == argument.input
            errors == returned.result.errors
        IN  /\ ~returned.threw
            /\ returned.result.valid = (errors = <<>>)
            /\ Occurrences(<<"Invalid startTime format", s.startTime>>, errors)
                 = (IF s.startTime # <<>> /\ ~WellFormedTime(s.startTime) THEN 1 ELSE 0)
            /\ Occurrences(<<"Invalid endTime format", s.endTime>>, errors)
                 = (IF s.endTime # <<>> /\ ~WellFormedTime(s.endTime) THEN 1 ELSE 0)
            /\ (WellFormedTime(s.startTime) /\ WellFormedTime(s.endTime)) =>
                 Occurrences(<<"startTime must be before endTime">>, errors)
                   = (IF MinuteOfDay(s.startTime) >= MinuteOfDay(s.endTime) THEN 1 ELSE 0)
            /\ \A day \in DayValues :
                 Occurrences(<<"Invalid day of week", day>>, errors)
                   = (IF day.half \/ day.whole \notin 0..6
                      THEN Occurrences(day, s.daysOfWeek) ELSE 0)

\* A schedule with two malformed times and two invalid days: all reported.
C27_Witness ==
    /\ argument.op = "validateSchedule" /\ returned.done
    /\ ~WellFormedTime(argument.input.startTime)
    /\ ~WellFormedTime(argument.input.endTime)
    /\ argument.input.startTime # <<>> /\ argument.input.endTime # <<>>
    /\ Len(argument.input.daysOfWeek) = 2
    /\ Len(returned.result.errors) = 5
    /\ ~returned.result.valid

\* The fields of a tick configuration that hold a number.
IntervalFields == {"intervalMs", "intervalSeconds", "intervalMinutes"}

\* C28: validateTickConfig reports an error when the configuration is
\* enabled and none of intervalMs, intervalSeconds and intervalMinutes is
\* given, and whenever a given interval or maxTicksPerRound is not strictly
\* positive; valid is true exactly when no error is reported.
C28_ValidateTickConfig ==
    (argument.op = "validateTickConfig" /\ returned.done) =>
        LET c == argument.input
            errors == returned.result.errors
        IN  /\ returned.result.valid = (errors = <<>>)
            /\ (c.enabled /\ \A field \in IntervalFields : c[field] = <<>>) =>
                 Occurrences("Tick config must specify at least one interval", errors) = 1
            /\ \A field \in IntervalFields \cup {"maxTicksPerRound"} :
                 (c[field] # <<>> /\ c[field][1] <= 0) =>
                     Occurrences(field \o " must be positive", errors) = 1

\* The orders x, y, z of the three nodes for which the edges of the
\* workflow are exactly x -> y and y -> z.
ChainOrders ==
    {order \in [1..3 -> DeclaredIds(workflow)] :
        /\ Len(workflow.nodes) = 3
        /\ {order[k] : k \in 1..3} = DeclaredIds(workflow)
        /\ EdgePairs(workflow) = {<<order[1], order[2]>>, <<order[2], order[3]>>}
        /\ Len(workflow.edges) = 2}

\* C26: for a linear graph x -> y -> z in which no invocation fails, the run
\* ends completed, each of the three nodes has exactly one node result and
\* it is completed, and the nodes were executed in the order x, y, z.
C26_LinearChainInOrder ==
    (phase = "done" /\ \A i \in 1..Len(nodeResults) : nodeResults[i].status # "failed") =>
        \A order \in ChainOrders :
            /\ result.status = "completed"
            /\ \A id \in DeclaredIds(workflow) :
                   /\ Cardinality({i \in 1..Len(nodeResults) : nodeResults[i].id = id}) = 1
                   /\ \A r \in ResultOf(id) : r.status = "completed"
            /\ [i \in 1..Len(nodeResults) |-> nodeResults[i].id] = order

\* ---------------------------------------------------------------------
\* agentic-cli: agentic register <file> [--force]
\* ---------------------------------------------------------------------

\* The register commands that run at the same time.
Commands == {"first", "second"}

AgentIds == {"agent-a", "agent-b"}

\* The agent definitions a file may hold; tags may be left out, and a
\* description may be empty.
AgentFiles ==
    [id : AgentIds, name : {"Agent"}, version : {"1.0.0", "2.0.0"},
     description : {"", "An agent"}, tags : {"undefined", "[ai]"}]

\* The definition handed to registry.register: tags || []
StoredDefinition(agent) ==
    [id |-> agent.id, name |-> agent.name, version |-> agent.version,
     description |-> agent.description,
     tags |-> IF agent.tags = "undefined" THEN "[]" ELSE agent.tags]

\* requiredFields.filter(field => !agent[field])
MissingFields(agent) ==
    {field \in {"id", "name", "version", "description"} : agent[field] = ""}

\* process.exit(code)
Exited(command, code) == [command EXCEPT !.pc = "exited", !.exitCode = code]

\* registry.register(agent): load the file, set the entry, save the file.
register(stored, agent) ==
    [id \in DOMAIN stored \cup {agent.id} |-> IF id = agent.id THEN agent ELSE stored[id]]

\* registry.exists(id)
exists(stored, id) == id \in DOMAIN stored

\* The file is read and a required field is missing: process.exit(1).
RegisterInvalid(p) ==
    /\ cli[p].pc = "start"
    /\ MissingFields(cli[p].agent) # {}
    /\ cli' = [cli EXCEPT ![p] = Exited(cli[p], 1)]
    /\ UNCHANGED <<registry, nonRegisterVars>>

\* A check that lets every registration through.
RegisterChecksNothing(p) ==
    /\ cli[p].pc = "start"
    /\ MissingFields(cli[p].agent) = {}
    /\ cli' = [cli EXCEPT ![p].pc = "checked",
                          ![p].exists = exists(registry, cli[p].agent.id)]
    /\ UNCHANGED <<registry, nonRegisterVars>>

\* The file is read and valid; registry.exists(agent.id) is awaited, and
\* the command exits with 1 if the agent exists and --force is not given.
RegisterChecks(p) ==
    /\ cli[p].pc = "start"
    /\ MissingFields(cli[p].agent) = {}
    /\ LET found == exists(registry, cli[p].agent.id)
       IN  cli' = [cli EXCEPT ![p] =
                      IF found /\ ~cli[p].force
                      THEN [Exited(cli[p], 1) EXCEPT !.exists = found]
                      ELSE [cli[p] EXCEPT !.pc = "checked", !.exists = found]]
    /\ UNCHANGED <<registry, nonRegisterVars>>

\* registry.register({...}) is awaited and the command ends.
RegisterWrites(p) ==
    /\ cli[p].pc = "checked"
    /\ registry' = register(registry, StoredDefinition(cli[p].agent))
    /\ cli' = [cli EXCEPT ![p] = Exited(cli[p], 0)]
    /\ UNCHANGED nonRegisterVars

\* registerAgent(file, options) is started by each command.
RegisterStart(agent, force) ==
    [pc |-> "start", agent |-> agent, force |-> force, exists |-> FALSE, exitCode |-> 0]

RegisterInit ==
    /\ \E stored \in {<<>>} \cup {register(<<>>, StoredDefinition(agent)) :
                                    agent \in {a \in AgentFiles : a.description = "An agent"
                                                                   /\ a.version = "1.0.0"}} :
          registry = stored
    /\ \E files \in [Commands -> AgentFiles], forces \in [Commands -> BOOLEAN] :
          cli = [p \in Commands |-> RegisterStart(files[p], forces[p])]
    /\ TickIdle
    /\ ScheduleIdle
    /\ DialogueIdle
    /\ FunctionIdle
    /\ EngineIdle
    /\ ParseIdle
    /\ CycleIdle
    /\ ClientIdle

RegisterNext ==
    \E p \in Commands :
        \/ RegisterInvalid(p)
        \/ RegisterChecks(p)
        \/ RegisterWrites(p)

SpecRegister == RegisterInit /\ [][RegisterNext]_vars

\* C29: a register command without --force whose agent id is in the
\* registry fails (exit code 1) and leaves the registry as it is; with
\* --force it goes on, and its write replaces the stored definition by the
\* new one and leaves every other entry alone. A command that has failed
\* does nothing more.
C29_RegisterRespectsForce ==
    /\ [][\A p \in Commands :
            (/\ cli[p].pc = "start"
             /\ MissingFields(cli[p].agent) = {}
             /\ cli[p].agent.id \in DOMAIN registry
             /\ cli'[p] # cli[p]) =>
                IF cli[p].force
                THEN cli'[p].pc = "checked"
                ELSE /\ cli'[p].pc = "exited" /\ cli'[p].exitCode = 1
                     /\ registry' = registry]_vars
    /\ [][\A p \in Commands :
            (cli[p].pc = "checked" /\ cli'[p] # cli[p]) =>
                /\ cli'[p].pc = "exited" /\ cli'[p].exitCode = 0
                /\ DOMAIN registry' = DOMAIN registry \cup {cli[p].agent.id}
                /\ \A id \in DOMAIN registry \ {cli[p].agent.id} : registry'[id] = registry[id]
                /\ LET written == registry'[cli[p].agent.id]
                   IN  /\ \A field \in {"id", "name", "version", "description"} :
                              written[field] = cli[p].agent[field]
                       /\ cli[p].agent.tags # "undefined" => written.tags = cli[p].agent.tags]_vars
    /\ [][\A p \in Commands : cli[p].pc = "exited" => cli'[p] = cli[p]]_vars
    /\ [](\A p \in Commands : (cli[p].pc = "checked" /\ cli[p].exists) => cli[p].force)

\* Both cases have happened: one command found the agent and failed
\* without --force, the other found it and replaced it with --force.
C29_Witness ==
    /\ cli["first"].pc = "exited" /\ cli["first"].exitCode = 1
    /\ cli["first"].exists /\ ~cli["first"].force
    /\ cli["second"].pc = "exited" /\ cli["second"].exitCode = 0
    /\ cli["second"].exists /\ cli["second"].force
    /\ cli["second"].agent.id = cli["first"].agent.id
    /\ registry[cli["second"].agent.id].version = "2.0.0"
    /\ cli["second"].agent.version = "2.0.0"

\* C30: resetRound(key) sets the tick count of that key to 0 and leaves its
\* last tick time, and the tick count and last tick time of every other key,
\* as they were.
C30_ResetRoundFrame ==
    [][\A agentId \in ActorKeys :
          (resetRound(agentId) \/ tickCounts'[agentId] < tickCounts[agentId]) =>
              /\ tickCounts'[agentId] = 0
              /\ lastTickTimes'[agentId] = lastTickTimes[agentId]
              /\ \A other \in ActorKeys \ {agentId} :
                     /\ tickCounts'[other] = tickCounts[other]
                     /\ lastTickTimes'[other] = lastTickTimes[other]]_vars

\* agent-1 has ticked and its round was reset, agent-2 still has its tick.
C30_Witness ==
    /\ tickCounts["agent-1"] = 0 /\ lastTickTimes["agent-1"] > StartTime
    /\ roundExecutions["agent-1"] = 0 /\ lastExecutionAt["agent-1"] > StartTime
    /\ tickCounts["agent-2"] = 1 /\ lastTickTimes["agent-2"] = StartTime - TimeStep

\* C31: a call of shouldExecute leaves every key's tick count and last
\* tick time as they were, whatever it returns; a tick count rises and a
\* last tick time changes only in a recordTick step.
C31_ShouldExecuteReadsOnly ==
    /\ [][(\E caller \in Callers, agentId \in ActorKeys : CallShouldExecute(caller, agentId)) =>
              (tickCounts' = tickCounts /\ lastTickTimes' = lastTickTimes)]_vars
    /\ [][(lastCall' # lastCall) =>
              (tickCounts' = tickCounts /\ lastTickTimes' = lastTickTimes)]_vars
    /\ [][(lastTickTimes' # lastTickTimes
             \/ \E agentId \in ActorKeys : tickCounts'[agentId] > tickCounts[agentId]) =>
              \E caller \in Callers :
                  /\ acting[caller] # "idle" /\ acting'[caller] = "idle"
                  /\ lastCall' = lastCall]_vars

\* shouldExecute has returned true for agent-1 and has returned false at a
\* later time, and in between a tick was recorded.
C31_Witness ==
    /\ lastCall.agentId = "agent-1" /\ ~lastCall.result /\ lastCall.at > StartTime
    /\ tickCounts["agent-1"] = 1
    /\ lastTickTimes["agent-1"] = StartTime
    /\ \A caller \in Callers : acting[caller] = "idle"

\* The participant has a registered agent.
Resolvable(participant) == participant \in agents

\* C32: in round-robin mode the turn of iteration k (from 0) is spoken by
\* participants[k mod n], n the number of participants; the recorded turns
\* therefore cycle through the participants that have an agent, in list
\* order.
C32_RoundRobinOrder ==
    dialogue.mode = "round-robin" =>
        LET n == Len(dialogue.participants)
            speaking == SelectSeq(dialogue.participants, Resolvable)
        IN  /\ turnLoop.phase = "calling" =>
                  turnLoop.turn.speaker = dialogue.participants[(turnLoop.i % n) + 1]
            /\ \A k \in 1..Len(dialogueContext.turns) :
                  dialogueContext.turns[k].speaker = speaking[((k - 1) % Len(speaking)) + 1]
            /\ agents = Range(dialogue.participants) =>
                  \A k \in 1..Len(dialogueContext.turns) :
                      dialogueContext.turns[k].speaker = dialogue.participants[((k - 1) % n) + 1]

\* Two participants have spoken three turns: the third is the first one's.
C32_Witness ==
    /\ dialogue.mode = "round-robin"
    /\ dialogue.participants = <<"ceo-agent", "cto-agent">>
    /\ agents = {"ceo-agent", "cto-agent"}
    /\ Len(dialogueContext.turns) = 3
    /\ dialogueContext.turns[2].speaker = "cto-agent"
    /\ dialogueContext.turns[3].speaker = "ceo-agent"

\* The speakers of the last two of the first k recorded turns.
LastTwoSpeakers(k) == {dialogueContext.turns[j].speaker : j \in {k - 1, k} \cap 1..k}

\* The participant is the one to speak after the first k recorded turns:
\* it did not speak either of the last two turns and every participant
\* before it in the list did, or all participants did and it is the first.
NextToSpeak(participant, k) ==
    \/ \E at \in 1..Len(dialogue.participants) :
          /\ dialogue.participants[at] = participant
          /\ participant \notin LastTwoSpeakers(k)
          /\ \A before \in 1..at - 1 : dialogue.participants[before] \in LastTwoSpeakers(k)
    \/ /\ Range(dialogue.participants) \subseteq LastTwoSpeakers(k)
       /\ participant = dialogue.participants[1]

\* C33: in dynamic mode the speaker of each turn is the first participant in
\* list order that spoke neither of the last two recorded turns, or the
\* first participant when all of them did.
C33_DynamicSpeaker ==
    dialogue.mode = "dynamic" =>
        /\ turnLoop.phase = "calling" =>
              NextToSpeak(turnLoop.turn.speaker, Len(dialogueContext.turns))
        /\ \A k \in 1..Len(dialogueContext.turns) :
              NextToSpeak(dialogueContext.turns[k].speaker, k - 1)

\* Four participants, four turns: the third participant spoke third and
\* the first one fourth.
C33_Witness ==
    /\ dialogue.mode = "dynamic"
    /\ Len(dialogue.participants) = 4
    /\ Len(dialogueContext.turns) = 4
    /\ dialogueContext.turns[3].speaker = "cmo-agent"
    /\ dialogueContext.turns[4].speaker = "ceo-agent"

\* One sequence is the other with entries appended at its end (or the same).
Extends(longer, shorter) ==
    /\ Len(longer) >= Len(shorter)
    /\ SubSeq(longer, 1, Len(shorter)) = shorter

\* C34: at every point of a dialogue turns and conversationHistory have the
\* same length, entry i of the history is the label of turn i's speaker,
\* ': ' and turn i's response, and both only ever grow at their end.
C34_HistoryMatchesTurns ==
    /\ [](/\ Len(dialogueContext.turns) = Len(dialogueContext.conversationHistory)
          /\ \A k \in 1..Len(dialogueContext.turns) :
                 dialogueContext.conversationHistory[k]
                     = <<getSpeakerName(dialogueContext.turns[k].speaker), ": ",
                         dialogueContext.turns[k].response>>)
    /\ [][/\ Extends(dialogueContext'.turns, dialogueContext.turns)
          /\ Extends(dialogueContext'.conversationHistory,
                     dialogueContext.conversationHistory)]_vars

\* Two turns of two speakers are recorded, with their two lines.
C34_Witness ==
    /\ Len(dialogueContext.turns) = 2
    /\ dialogueContext.turns[1].speaker = "ceo-agent"
    /\ dialogueContext.turns[2].speaker = "cto-agent"
    /\ dialogueContext.conversationHistory = <<<<"CEO", ": ", "yes">>, <<"CTO", ": ", "true">>>>

\* C39: a dynamic dialogue whose participants all have an agent, without
\* end condition and with maxTurns at least the number of participants, has
\* let every participant speak when it completes.
C39_EveryParticipantSpeaks ==
    (/\ dialogue.mode = "dynamic"
     /\ agents = Range(dialogue.participants)
     /\ dialogue.endCondition = <<>>
     /\ dialogue.maxTurns >= Len(dialogue.participants)
     /\ nodeRun.status = "completed") =>
        \A k \in 1..Len(dialogue.participants) :
            \E j \in 1..Len(nodeRun.turns) :
                nodeRun.turns[j].speaker = dialogue.participants[k]

\* The entries of a sequence of sequences, one after the other.
RECURSIVE Flatten(_)
Flatten(entries) == IF entries = <<>> THEN <<>> ELSE Head(entries) \o Flatten(Tail(entries))

\* A template with every marker replaced by the value of its own path, the
\* markers without value left as they stand.
SubstituteEach(template, ValueOf(_)) ==
    Flatten([k \in 1..Len(template) |->
                IF ~template[k].ref THEN <<template[k].text>>
                ELSE IF ValueOf(template[k]).defined THEN ValueOf(template[k]).text
                ELSE Marker(template[k])])

\* C35: every marker of a template is replaced by the string value of its
\* own path, independently of the others: what a call of resolve returns,
\* and what executeNode posts, is the template with each marker replaced by
\* its value at every occurrence, and text brought in by a value is left
\* as it is.
C35_MarkersReplacedIndependently ==
    /\ (argument.op = "resolve" /\ returned.done /\ returned.result.ok) =>
          LET ValueOf(segment) == getNestedValue(argument.input.context, segment)
          IN  returned.result.value = SubstituteEach(argument.input.template, ValueOf)
    /\ (argument.op = "executeNode" /\ returned.done) =>
          LET ValueOf(segment) ==
                  LET parts == PathParts(segment.text)
                  IN  IF parts[1] = "inputs"
                      THEN IF parts[2] \in DOMAIN argument.input.workflowInputs
                           THEN Defined(argument.input.workflowInputs[parts[2]])
                           ELSE Undefined
                      ELSE IF parts[1] \in DOMAIN argument.input.previousResults
                           THEN Defined(argument.input.previousResults[parts[1]])
                           ELSE Undefined
          IN  returned.posted = SubstituteEach(argument.input.inputs, ValueOf)


\* C38: cycle detection reports a circular dependency only for a real cycle:
\* a graph without a cycle, whatever its components and undeclared
\* dependencies, gets no error, and every reported path closes a cycle of
\* the graph.
C38_OnlyRealCycles ==
    \A i \in 1..Len(cycleResult) :
        LET r == cycleResult[i]
        IN  /\ ~HasCycle(spec) => (r.valid /\ r.errors = <<>>)
            /\ \A k \in 1..Len(r.errors) : ClosesCycle(spec, r.errors[k])


\* C37: for every enabled tick config, with or without intervalMs, and a key
\* below its tick limit, getTimeUntilNextTick returns 0 exactly when
\* shouldExecute returns true.
C37_NoWaitIffShouldExecute ==
    \A agentId \in ActorKeys :
        (tickConfig.enabled /\ BudgetLeft(agentId)) =>
            ((getTimeUntilNextTick(agentId, tickConfig) = 0) <=> shouldExecute(agentId, tickConfig))


\* Only the first caller ever uses the gate.
SingleCaller == \A caller \in Callers \ {"caller-1"} : acting[caller] = "idle"

\* C36: when a single caller records a tick of a key only after shouldExecute
\* returned true for it under the same enabled config, the key's tick count
\* never exceeds the configured maxTicksPerRound, whenever the rounds are
\* reset.
C36_TickCountWithinLimit ==
    [](SingleCaller) =>
        [](\A agentId \in ExecutedKeys :
              (tickConfig.enabled /\ tickConfig.maxTicksPerRound # 0) =>
                  tickCounts[agentId] <= tickConfig.maxTicksPerRound)

\* The single caller executed the key after the start, the round's ticks
\* are used up, and the call made now was refused although the interval
\* has passed.
C36_Witness ==
    /\ SingleCaller
    /\ tickConfig.enabled
    /\ tickConfig.maxTicksPerRound = 1
    /\ lastCall.agentId \in ExecutedKeys
    /\ lastCall.at = now
    /\ ~lastCall.result
    /\ acting["caller-1"] = "idle"
    /\ tickCounts[lastCall.agentId] = 1
    /\ roundExecutions[lastCall.agentId] = 1
    /\ lastExecutionAt[lastCall.agentId] > StartTime
    /\ now - lastTickTimes[lastCall.agentId] >= DefaultIntervalMs
    /\ tickConfig.intervalMs = 0

====
